---- MODULE Spec2Model ----
(***************************************************************************)
(* Ledger / stock consistency engine of mon_business.                      *)
(*                                                                         *)
(* A JavaScript object is a TLA+ record holding exactly the keys that are  *)
(* present: a key whose value is undefined is an absent key (this is also  *)
(* what JSON.stringify / JSON.parse keep).  Arrays are sequences.          *)
(*                                                                         *)
(* Sources: lib/entries.ts (entry ledger), unnamed/part_005 lines 1-197    *)
(* (document store with load-time migration), PLAN.md lines 741-891 (the   *)
(* "@/types" module of the typed SALE / EXPENSE entry the ledger handles). *)
(***************************************************************************)
EXTENDS Integers, Sequences, FiniteSets, TLC

VARIABLES
    store,      \* raw value of the localStorage slot "mon_business_data"
    window,     \* TRUE in a browser, FALSE when typeof window === "undefined"
    last,       \* record of the most recent call into the store or ledger
    mem,        \* the BusinessData a step works on: the document the slot
                \* holds (ledger steps), or the argument of a helper
    mlast,      \* most recent ledger step on mem
    mprev,      \* the ledger step before mlast
    tpc,        \* per tab: position inside addOrUpdateEntry
    tdata,      \* per tab: the document returned by its loadData()
    tentry,     \* per tab: the entry being added
    tlog,       \* order in which the tabs loaded and saved
    mig,        \* input and output of the last migration step
    ana         \* entry list, clock and results of the analytics functions

vars == <<store, window, last, mem, mlast, mprev, tpc, tdata, tentry, tlog, mig, ana>>

----------------------------------------------------------------------------
(* Bounds of the model *)

MaxQty == 3          \* largest quantity carried by an entry
MaxStock == 4        \* stock quantities above this are not explored

----------------------------------------------------------------------------
(* JavaScript helpers *)

Has(o, k) == k \in DOMAIN o

\* { ...o, k: v }
With(o, k, v) == [x \in (DOMAIN o) \cup {k} |-> IF x = k THEN v ELSE o[x]]

\* (o.k || 0) for a numeric member: undefined and 0 both give 0
NumOrZero(o, k) == IF Has(o, k) THEN o[k] ELSE 0

\* Math.max(0, x) left out
Max0NoClamp(x) == x

\* Math.max(0, x)
Max0(x) == IF x > 0 THEN x ELSE 0

\* Math.floor(n / d) in the place of Math.round
RoundDivDown(n, d) == n \div d

\* Math.round(n / d) for d > 0: round half up, floor(n/d + 1/2)
RoundDiv(n, d) == (2 * n + d) \div (2 * d)

RECURSIVE SumSeq(_)
SumSeq(s) == IF s = <<>> THEN 0 ELSE Head(s) + SumSeq(Tail(s))

\* Array.prototype.map
MapSeq(s, F(_)) == [i \in 1..Len(s) |-> F(s[i])]

\* Array.prototype.findIndex on the id member; 0 stands for JavaScript's -1
FindIndexById(s, id) ==
    IF \E i \in 1..Len(s) : Has(s[i], "id") /\ s[i].id = id
    THEN CHOOSE i \in 1..Len(s) :
            /\ Has(s[i], "id") /\ s[i].id = id
            /\ \A j \in 1..(i - 1) : ~(Has(s[j], "id") /\ s[j].id = id)
    ELSE 0

----------------------------------------------------------------------------
(* "@/types": categories and validators *)

EXPENSE_CATEGORIES == {"Stock", "Transport", "Loyer", "Salaire", "Internet", "Autre"}

isValidExpenseCategory(c) == c \in EXPENSE_CATEGORIES

\* Calendar days of the model in lexicographic (= localeCompare) order;
\* "2025-6-1" does not match /^\d{4}-\d{2}-\d{2}$/
DateStrings == <<"2025-06-01", "2025-06-02", "2025-6-1">>
IsoDates == {"2025-06-01", "2025-06-02"}

\* /^\d{4}-\d{2}-\d{2}$/.test(d): of the day strings of the model, every one
\* but "2025-6-1" matches
MatchesDateRegex(d) == d # "2025-6-1"

isValidDailyEntry(obj) ==
    LET hasValidId == Has(obj, "id") /\ obj.id # ""
        hasValidDate == Has(obj, "date") /\ MatchesDateRegex(obj.date)
        isValidType == Has(obj, "type") /\ obj.type \in {"SALE", "EXPENSE"}
        hasValidAmount == Has(obj, "amount") /\ obj.amount >= 0
        hasValidCategory ==
            (~Has(obj, "category")) \/ obj.category = ""
                \/ isValidExpenseCategory(obj.category)
        hasValidQuantity ==
            (~Has(obj, "quantity")) \/ obj.quantity = 0 \/ obj.quantity >= 0
    IN  hasValidId /\ hasValidDate /\ isValidType /\ hasValidAmount
            /\ hasValidCategory /\ hasValidQuantity

isValidStockItem(obj) ==
    /\ Has(obj, "id") /\ obj.id # ""
    /\ Has(obj, "name") /\ obj.name # ""
    /\ Has(obj, "quantity") /\ obj.quantity >= 0
    /\ Has(obj, "threshold") /\ obj.threshold >= 0
    /\ ((~Has(obj, "totalSold")) \/ obj.totalSold >= 0)

----------------------------------------------------------------------------
(* Document store: lib/storage *)

\* settings.dailyTarget is undefined, hence absent
getDefaultData ==
    [settings |-> [name |-> ""], entries |-> <<>>, stock |-> <<>>]

\* Copies the members of o named in ks that are present
Pick(o, ks) == [k \in (DOMAIN o) \cap ks |-> o[k]]

\* migrateEntryToNewFormat building the expense line from the sales figure
migrateEntryUsesSalesTwice(entry) ==
    IF Has(entry, "saleItems") /\ Has(entry, "expenseItems")
    THEN Pick(entry, {"id", "date", "saleItems", "expenseItems", "timestamp"})
            @@ [sales |-> NumOrZero(entry, "sales"),
                expenses |-> NumOrZero(entry, "expenses")]
    ELSE LET oldSales == NumOrZero(entry, "sales")
             oldExpenses == NumOrZero(entry, "expenses")
             saleItems ==
                 IF oldSales > 0
                 THEN <<[productId |-> "_legacy_", quantity |-> 1, total |-> oldSales]>>
                 ELSE <<>>
             expenseItems ==
                 IF oldSales > 0
                 THEN <<[category |-> "Autre", amount |-> oldSales]>>
                 ELSE <<>>
         IN  Pick(entry, {"id", "date", "timestamp"})
                @@ [saleItems |-> saleItems, expenseItems |-> expenseItems,
                    sales |-> oldSales, expenses |-> oldExpenses]

migrateEntryToNewFormat(entry) ==
    IF Has(entry, "saleItems") /\ Has(entry, "expenseItems")
    THEN Pick(entry, {"id", "date", "saleItems", "expenseItems", "timestamp"})
            @@ [sales |-> NumOrZero(entry, "sales"),
                expenses |-> NumOrZero(entry, "expenses")]
    ELSE LET oldSales == NumOrZero(entry, "sales")
             oldExpenses == NumOrZero(entry, "expenses")
             saleItems ==
                 IF oldSales > 0
                 THEN <<[productId |-> "_legacy_", quantity |-> 1, total |-> oldSales]>>
                 ELSE <<>>
             expenseItems ==
                 IF oldExpenses > 0
                 THEN <<[category |-> "Autre", amount |-> oldExpenses]>>
                 ELSE <<>>
         IN  Pick(entry, {"id", "date", "timestamp"})
                @@ [saleItems |-> saleItems, expenseItems |-> expenseItems,
                    sales |-> oldSales, expenses |-> oldExpenses]

migrateStockItemToNewFormat(item) ==
    Pick(item, {"id", "name", "quantity", "threshold", "unitPrice"})
        @@ [totalSold |-> NumOrZero(item, "totalSold")]

isValidBusinessSettings(d) ==
    /\ Has(d, "settings")
    /\ Has(d.settings, "name")
    /\ ((~Has(d.settings, "dailyTarget")) \/ d.settings.dailyTarget >= 0)

isValidBusinessData(d) ==
    /\ isValidBusinessSettings(d)
    /\ Has(d, "entries")
    /\ \A i \in 1..Len(d.entries) : isValidDailyEntry(d.entries[i])
    /\ Has(d, "stock")
    /\ \A i \in 1..Len(d.stock) : isValidStockItem(d.stock[i])

\* The slot is absent, holds text JSON.parse rejects, holds the JSON text
\* "null", or holds a JSON object
Absent == [kind |-> "absent"]
Garbage == [kind |-> "garbage"]
JsonNull == [kind |-> "null"]
Json(d) == [kind |-> "json", value |-> d]

\* parsed with entries and stock mapped through the migration functions
Migrated(parsed) ==
    LET p1 == IF Has(parsed, "entries")
              THEN With(parsed, "entries",
                        MapSeq(parsed.entries, migrateEntryToNewFormat))
              ELSE parsed
    IN  IF Has(p1, "stock")
        THEN With(p1, "stock", MapSeq(p1.stock, migrateStockItemToNewFormat))
        ELSE p1

\* loadData handing out the migrated document without validating it
loadDataNoValidation(win, st) ==
    IF ~win THEN getDefaultData
    ELSE IF st.kind # "json" THEN getDefaultData
    ELSE Migrated(st.value)

loadData(win, st) ==
    IF ~win THEN getDefaultData
    ELSE IF st.kind = "absent" THEN getDefaultData
    ELSE IF st.kind = "garbage" THEN getDefaultData   \* JSON.parse throws
    ELSE IF st.kind = "null" THEN getDefaultData      \* parsed.entries throws
    ELSE LET parsed == Migrated(st.value)
         IN  IF ~isValidBusinessData(parsed) THEN getDefaultData ELSE parsed

\* saveData writing before it validates
saveDataWriteFirst(win, setItemThrows, st, data) ==
    IF ~win THEN [ok |-> FALSE, store |-> st]
    ELSE IF setItemThrows THEN [ok |-> FALSE, store |-> st]
    ELSE IF ~isValidBusinessData(data) THEN [ok |-> FALSE, store |-> Json(data)]
    ELSE [ok |-> TRUE, store |-> Json(data)]

\* saveData without the validation step
saveDataSkipsValidation(win, setItemThrows, st, data) ==
    IF ~win THEN [ok |-> FALSE, store |-> st]
    ELSE IF setItemThrows THEN [ok |-> FALSE, store |-> st]
    ELSE [ok |-> TRUE, store |-> Json(data)]

\* saveData keeping a value that is already stored instead of replacing it
saveDataKeepsStored(win, setItemThrows, st, data) ==
    IF ~win THEN [ok |-> FALSE, store |-> st]
    ELSE IF ~isValidBusinessData(data) THEN [ok |-> FALSE, store |-> st]
    ELSE IF setItemThrows THEN [ok |-> FALSE, store |-> st]
    ELSE [ok |-> TRUE, store |-> IF st.kind = "json" THEN st ELSE Json(data)]

\* setItemThrows: localStorage.setItem raises (quota, disabled storage)
saveData(win, setItemThrows, st, data) ==
    IF ~win THEN [ok |-> FALSE, store |-> st]
    ELSE IF ~isValidBusinessData(data) THEN [ok |-> FALSE, store |-> st]
    ELSE IF setItemThrows THEN [ok |-> FALSE, store |-> st]
    ELSE [ok |-> TRUE, store |-> Json(data)]

----------------------------------------------------------------------------
(* Entry ledger: lib/entries.ts *)

\* entry.productId && entry.quantity
HasProductAndQuantity(entry) ==
    /\ Has(entry, "productId") /\ entry.productId # ""
    /\ Has(entry, "quantity") /\ entry.quantity # 0

\* applyStockChange(stock, entry)
applyStockChange(stock, entry) ==
    IF ~HasProductAndQuantity(entry) THEN stock
    ELSE LET itemIndex == FindIndexById(stock, entry.productId)
         IN  IF itemIndex = 0 THEN stock
             ELSE LET item == stock[itemIndex]
                  IN  IF entry.type = "SALE"
                      THEN LET currentRevenue ==
                                   item.totalSold * NumOrZero(item, "unitPrice")
                               newRevenue == currentRevenue + entry.amount
                               newTotalSold == item.totalSold + entry.quantity
                               roundedAverage ==
                                   IF newTotalSold > 0
                                   THEN RoundDiv(newRevenue, newTotalSold)
                                   ELSE 0
                           IN  [stock EXCEPT ![itemIndex] =
                                   With(With(With(item,
                                       "quantity", Max0(item.quantity - entry.quantity)),
                                       "totalSold", newTotalSold),
                                       "unitPrice", roundedAverage)]
                      ELSE IF entry.type = "EXPENSE" /\ Has(entry, "category")
                                /\ entry.category = "Stock"
                      THEN [stock EXCEPT ![itemIndex] =
                               With(item, "quantity", item.quantity + entry.quantity)]
                      ELSE stock

\* revertStockChange that also forgets the price once nothing is sold
revertStockChangeUnwindingPrice(stock, entry) ==
    IF ~HasProductAndQuantity(entry) THEN stock
    ELSE LET itemIndex == FindIndexById(stock, entry.productId)
         IN  IF itemIndex = 0 THEN stock
             ELSE LET item == stock[itemIndex]
                  IN  IF entry.type = "SALE"
                      THEN [stock EXCEPT ![itemIndex] =
                               With(With(With(item,
                                   "quantity", item.quantity + entry.quantity),
                                   "totalSold", Max0(item.totalSold - entry.quantity)),
                                   "unitPrice",
                                   IF item.totalSold > entry.quantity
                                   THEN NumOrZero(item, "unitPrice") ELSE 0)]
                      ELSE IF entry.type = "EXPENSE" /\ Has(entry, "category")
                                /\ entry.category = "Stock"
                      THEN [stock EXCEPT ![itemIndex] =
                               With(item, "quantity",
                                    Max0(item.quantity - entry.quantity))]
                      ELSE stock

revertStockChange(stock, entry) ==
    IF ~HasProductAndQuantity(entry) THEN stock
    ELSE LET itemIndex == FindIndexById(stock, entry.productId)
         IN  IF itemIndex = 0 THEN stock
             ELSE LET item == stock[itemIndex]
                  IN  IF entry.type = "SALE"
                      THEN [stock EXCEPT ![itemIndex] =
                               With(With(item,
                                   "quantity", item.quantity + entry.quantity),
                                   "totalSold", Max0(item.totalSold - entry.quantity))]
                      ELSE IF entry.type = "EXPENSE" /\ Has(entry, "category")
                                /\ entry.category = "Stock"
                      THEN [stock EXCEPT ![itemIndex] =
                               With(item, "quantity",
                                    Max0(item.quantity - entry.quantity))]
                      ELSE stock

\* a.date.localeCompare(b.date) on the model's day strings
DateRank(d) == CHOOSE i \in 1..Len(DateStrings) : DateStrings[i] = d

\* The comparator of the sort: negative, zero or positive
CompareEntries(a, b) ==
    IF DateRank(a.date) # DateRank(b.date)
    THEN DateRank(a.date) - DateRank(b.date)
    ELSE a.timestamp - b.timestamp

\* Array.prototype.sort is stable: x goes after every element not above it
RECURSIVE InsertSorted(_, _)
InsertSorted(sorted, x) ==
    IF sorted = <<>> THEN <<x>>
    ELSE IF CompareEntries(Head(sorted), x) <= 0
         THEN <<Head(sorted)>> \o InsertSorted(Tail(sorted), x)
         ELSE <<x>> \o sorted

RECURSIVE SortEntries(_)
SortEntries(s) ==
    IF s = <<>> THEN <<>>
    ELSE InsertSorted(SortEntries(SubSeq(s, 1, Len(s) - 1)), s[Len(s)])

\* Lines 20-41 of addOrUpdateEntry: the document handed to saveData
addOrUpdateBody(data, entry) ==
    LET existingIndex == FindIndexById(data.entries, entry.id)
        changed ==
            IF existingIndex > 0
            THEN LET oldEntry == data.entries[existingIndex]
                     reverted == revertStockChange(data.stock, oldEntry)
                 IN  [data EXCEPT
                        !.entries = [data.entries EXCEPT ![existingIndex] = entry],
                        !.stock = applyStockChange(reverted, entry)]
            ELSE [data EXCEPT
                    !.entries = Append(data.entries, entry),
                    !.stock = applyStockChange(data.stock, entry)]
    IN  [changed EXCEPT !.entries = SortEntries(changed.entries)]

\* Lines 57-63 of deleteEntry: the document handed to saveData
\* (SelectSeq is Array.prototype.filter)
deleteBody(data, entryId) ==
    LET idx == FindIndexById(data.entries, entryId)
        stock1 == IF idx > 0
                  THEN revertStockChange(data.stock, data.entries[idx])
                  ELSE data.stock
        KeepEntry(e) == ~(Has(e, "id") /\ e.id = entryId)
    IN  [data EXCEPT !.entries = SelectSeq(data.entries, KeepEntry),
                     !.stock = stock1]

----------------------------------------------------------------------------
(* Import of an export file: lib/import_and_export.ts.  A value produced by *)
(* JSON.parse is a record tagged with its JavaScript type.                  *)

JNum(n) == [t |-> "number", num |-> n]
JStr(x) == [t |-> "string", str |-> x]
JArr(items) == [t |-> "array", items |-> items]
JObj(members) == [t |-> "object", members |-> members]
JNull == [t |-> "null"]
JUndefined == [t |-> "undefined"]

\* typeof raw !== "object" || raw === null
NotAnObject(j) == j.t \notin {"object", "array"}

\* obj[k]: undefined when the member is absent
Member(j, k) == IF j.t = "object" /\ k \in DOMAIN j.members THEN j.members[k] ELSE JUndefined

\* `${x}` raises a TypeError for an object that cannot be converted to a
\* primitive: a parsed object with an own member named toString (never a
\* function in JSON) falls through to Object.prototype.valueOf, which returns
\* the object itself; an array joins the conversions of its elements
RECURSIVE TemplateThrows(_)
TemplateThrows(j) ==
    IF j.t = "object" THEN "toString" \in DOMAIN j.members
    ELSE IF j.t = "array" THEN \E i \in 1..Len(j.items) : TemplateThrows(j.items[i])
    ELSE FALSE

ImportOk(data) == [ok |-> TRUE, data |-> data]
ImportError(error) == [ok |-> FALSE, error |-> error]
\* The call does not return: an exception leaves the function
ImportThrown == [threw |-> TRUE]

IsThrown(r) == "threw" \in DOMAIN r

validateStockItem(raw) ==
    IF NotAnObject(raw) THEN ImportError("Article de stock invalide.")
    ELSE IF Member(raw, "id").t # "string"
    THEN ImportError("Article de stock sans champ id valide.")
    ELSE IF Member(raw, "name").t # "string"
    THEN ImportError("Article de stock sans champ name valide.")
    ELSE IF Member(raw, "quantity").t # "number"
    THEN ImportError("Stock: quantity doit etre un nombre.")
    ELSE ImportOk(JUndefined)

validateEntry(raw) ==
    IF NotAnObject(raw) THEN ImportError("Entree invalide.")
    ELSE IF Member(raw, "id").t # "string"
    THEN ImportError("Entree sans champ id valide.")
    ELSE IF Member(raw, "timestamp").t # "number"
    THEN ImportError("Entree: timestamp doit etre un nombre.")
    ELSE IF ~(Member(raw, "type").t = "string"
                /\ Member(raw, "type").str \in {"SALE", "EXPENSE"})
    THEN IF TemplateThrows(Member(raw, "type")) THEN ImportThrown
         ELSE ImportError("Entree: type inconnu.")
    ELSE IF Member(raw, "amount").t # "number"
    THEN ImportError("Entree: amount doit etre un nombre.")
    ELSE ImportOk(JUndefined)

\* for (const item of items) { result = validate(item); if (!result.ok)
\* return result; }: the outcome of the first item that does not pass
FirstFailure(results) ==
    IF \E i \in 1..Len(results) : IsThrown(results[i]) \/ ~results[i].ok
    THEN results[CHOOSE i \in 1..Len(results) :
                    /\ IsThrown(results[i]) \/ ~results[i].ok
                    /\ \A j \in 1..(i - 1) : ~IsThrown(results[j]) /\ results[j].ok]
    ELSE ImportOk(JUndefined)

validatePayload(raw) ==
    IF raw.t # "object" THEN ImportError("Format de fichier invalide.")
    ELSE IF ~(Member(raw, "version").t = "number" /\ Member(raw, "version").num = 1)
    THEN IF TemplateThrows(Member(raw, "version")) THEN ImportThrown
         ELSE ImportError("Version de fichier non supportee.")
    ELSE IF Member(raw, "stock").t # "array"
    THEN ImportError("Champ stock manquant ou invalide.")
    ELSE IF Member(raw, "entries").t # "array"
    THEN ImportError("Champ entries manquant ou invalide.")
    ELSE LET s == FirstFailure(MapSeq(Member(raw, "stock").items, validateStockItem))
         IN  IF IsThrown(s) \/ ~s.ok THEN s
             ELSE LET e == FirstFailure(MapSeq(Member(raw, "entries").items, validateEntry))
                  IN  IF IsThrown(e) \/ ~e.ok THEN e
                      ELSE ImportOk(raw)

\* A file whose text() rejects, whose text JSON.parse rejects, or whose text
\* parses to a value
UnreadableFile == [kind |-> "unreadable"]
GarbageFile == [kind |-> "garbage"]
JsonFile(j) == [kind |-> "json", value |-> j]

importJSON(file) ==
    IF file.kind = "unreadable" THEN ImportError("Impossible de lire le fichier.")
    ELSE IF file.kind = "garbage" THEN ImportError("Le fichier n'est pas un JSON valide.")
    ELSE LET validation == validatePayload(file.value)
         IN  IF IsThrown(validation) THEN ImportThrown
             ELSE IF ~validation.ok THEN ImportError(validation.error)
             ELSE ImportOk(validation.data)

\* The JavaScript value of a parsed JSON value made of numbers, strings,
\* arrays and objects
RECURSIVE Plain(_)
Plain(j) ==
    IF j.t = "array" THEN [i \in 1..Len(j.items) |-> Plain(j.items[i])]
    ELSE IF j.t = "object" THEN [k \in DOMAIN j.members |-> Plain(j.members[k])]
    ELSE IF j.t = "number" THEN j.num
    ELSE j.str

\* { ...result.data, settings: currentData.settings }
ImportedDocument(data, settings) == With(Plain(data), "settings", settings)

----------------------------------------------------------------------------
(* Values the model draws its inputs from *)

EntryIds == {"e1", "e2"}

\* Day and creation instant of the entries of the model, per id
EntryDate(id) == IF id = "e1" THEN "2025-06-02" ELSE "2025-06-01"
EntryTimestamp(id) == IF id = "e1" THEN 1 ELSE 2

Sale(id, pid, q, a) ==
    [id |-> id, date |-> EntryDate(id), timestamp |-> EntryTimestamp(id),
     type |-> "SALE", productId |-> pid, quantity |-> q, amount |-> a]

StockExpense(id, pid, q, a) ==
    [id |-> id, date |-> EntryDate(id), timestamp |-> EntryTimestamp(id),
     type |-> "EXPENSE", category |-> "Stock", productId |-> pid,
     quantity |-> q, amount |-> a]

Expense(id, cat, a) ==
    [id |-> id, date |-> EntryDate(id), timestamp |-> EntryTimestamp(id),
     type |-> "EXPENSE", category |-> cat, amount |-> a]

\* newItem of the stock page: the item its form saves
Item(id, q, sold) ==
    [id |-> id, name |-> "Savon", quantity |-> q, threshold |-> 1,
     unitPrice |-> 0, totalSold |-> sold,
     hasInitialStockTransaction |-> FALSE]

\* An item with the required members only (an import stores such items, the
\* migration of the flat schema hands them out)
PlainItem(id, q, sold) ==
    [id |-> id, name |-> "Savon", quantity |-> q, threshold |-> 1,
     totalSold |-> sold]

\* Entries the user interface builds (AddEntry handleSubmit)
ValidEntries(pids) ==
    UNION {
        {Sale(id, pid, q, 10) : pid \in pids, q \in 1..MaxQty}
        \cup {StockExpense(id, pid, 2, 5) : pid \in pids}
        \cup {Sale(id, "p9", 1, 7), Expense(id, "Transport", 4)}
        : id \in EntryIds }

\* The same plus an object saveData must refuse (negative amount)
EntryInputs == ValidEntries({"p1"}) \cup {Sale(id, "p1", 1, -2) : id \in EntryIds}

Settings == [name |-> "Shop", dailyTarget |-> 50]

\* Documents written by the current typed schema
TypedDoc(entries, stock) ==
    [settings |-> Settings, entries |-> entries, stock |-> stock]

\* A document of the flat sales / expenses schema
LegacyDoc ==
    [settings |-> Settings,
     entries |-> <<[id |-> "e1", date |-> "2025-06-01", sales |-> 7,
                    expenses |-> 3, timestamp |-> 1]>>,
     stock |-> <<[id |-> "p1", name |-> "Savon", quantity |-> 2,
                  threshold |-> 1]>>]

\* Documents that fail validation: negative quantity, missing settings
NegativeStockDoc == TypedDoc(<<>>, <<Item("p1", -1, 0)>>)
NoSettingsDoc == [entries |-> <<>>, stock |-> <<Item("p1", 1, 0)>>]

StockOnlyDocs == {TypedDoc(<<>>, <<Item("p1", q, 0)>>) : q \in 0..2}

DocInputs ==
    StockOnlyDocs
    \cup {TypedDoc(<<Sale("e1", "p1", 1, 10)>>, <<Item("p1", 1, 1)>>),
          NegativeStockDoc, NoSettingsDoc}

InitStores ==
    {Absent, Garbage, JsonNull, Json(LegacyDoc), Json(NegativeStockDoc)}
    \cup {Json(d) : d \in StockOnlyDocs}

NoCall == [op |-> "none"]

\* Export files offered to the import
JItem(id, q) ==
    JObj([id |-> JStr(id), name |-> JStr("Savon"), quantity |-> JNum(q),
          threshold |-> JNum(1), totalSold |-> JNum(0)])

JSale(id, a) ==
    JObj([id |-> JStr(id), date |-> JStr(EntryDate(id)),
          timestamp |-> JNum(EntryTimestamp(id)), type |-> JStr("SALE"),
          productId |-> JStr("p1"), quantity |-> JNum(1), amount |-> JNum(a)])

JExpense(id) ==
    JObj([id |-> JStr(id), date |-> JStr(EntryDate(id)),
          timestamp |-> JNum(EntryTimestamp(id)), type |-> JStr("EXPENSE"),
          category |-> JStr("Transport"), amount |-> JNum(4)])

\* { ...j, k: x } and j without its member k
JWith(j, k, x) == JObj(With(j.members, k, x))
JWithout(j, k) == JObj([m \in (DOMAIN j.members) \ {k} |-> j.members[m]])

\* An object JSON.parse builds from {"toString": 1}
JNoPrimitive == JObj([toString |-> JNum(1)])

JPayload(stock, entries) ==
    JObj([version |-> JNum(1), exportedAt |-> JNum(1000),
          stock |-> JArr(stock), entries |-> JArr(entries)])

JGoodPayload == JPayload(<<JItem("p1", 2)>>, <<JSale("e2", 10), JExpense("e1")>>)

\* Payloads the field checks let through; saveData refuses the documents
\* with a negative amount, a negative quantity or an entry without a date,
\* and takes the one whose stock item has no totalSold
AcceptablePayloads ==
    {JPayload(<<>>, <<>>), JGoodPayload,
     JPayload(<<JItem("p1", 1)>>, <<JSale("e1", 10)>>),
     JPayload(<<JItem("p1", 2)>>, <<JSale("e1", -2)>>),
     JPayload(<<JItem("p1", -1)>>, <<>>),
     JPayload(<<>>, <<JWithout(JSale("e1", 10), "date")>>),
     JPayload(<<JWithout(JItem("p1", 2), "totalSold")>>, <<>>)}

BadVersions == {JNum(2), JStr("1"), JNull, JNoPrimitive, JArr(<<JNoPrimitive>>)}

BadStockItems ==
    {JNull, JNum(3), JArr(<<>>),
     JWithout(JItem("p1", 2), "id"), JWith(JItem("p1", 2), "id", JNum(7)),
     JWithout(JItem("p1", 2), "name"),
     JWith(JItem("p1", 2), "quantity", JStr("2")),
     JWith(JItem("p1", 2), "quantity", JNull)}

BadEntries ==
    {JNull, JStr("e1"), JArr(<<>>),
     JWithout(JSale("e1", 10), "id"), JWith(JSale("e1", 10), "id", JNum(1)),
     JWithout(JSale("e1", 10), "timestamp"),
     JWith(JSale("e1", 10), "timestamp", JStr("1")),
     JWithout(JSale("e1", 10), "type"),
     JWith(JSale("e1", 10), "type", JStr("REFUND")),
     JWith(JSale("e1", 10), "type", JNoPrimitive),
     JWithout(JSale("e1", 10), "amount"),
     JWith(JSale("e1", 10), "amount", JStr("10"))}

RejectablePayloads ==
    {JNull, JNum(1), JStr("x"), JArr(<<>>), JWithout(JGoodPayload, "version"),
     JWithout(JGoodPayload, "stock"), JWith(JGoodPayload, "stock", JItem("p1", 2)),
     JWithout(JGoodPayload, "entries"), JWith(JGoodPayload, "entries", JStr("none"))}
    \cup {JWith(JGoodPayload, "version", v) : v \in BadVersions}
    \cup {JPayload(<<JItem("p1", 2), i>>, <<JSale("e1", 10)>>) : i \in BadStockItems}
    \cup {JPayload(<<JItem("p1", 2)>>, <<JExpense("e2"), e>>) : e \in BadEntries}
    \cup {JPayload(<<JWithout(JItem("p1", 2), "name")>>,
                   <<JWith(JSale("e1", 10), "type", JNoPrimitive)>>)}

ImportFiles ==
    {UnreadableFile, GarbageFile}
    \cup {JsonFile(j) : j \in AcceptablePayloads \cup RejectablePayloads}

----------------------------------------------------------------------------
(* The program: document store and entry ledger over localStorage *)

OtherVarsInit ==
    /\ mem = getDefaultData /\ mlast = NoCall /\ mprev = NoCall
    /\ tpc = <<>> /\ tdata = <<>> /\ tentry = <<>> /\ tlog = <<>>
    /\ mig = NoCall /\ ana = NoCall

Init ==
    /\ store \in InitStores
    /\ window \in BOOLEAN
    /\ last = NoCall
    /\ OtherVarsInit

Untouched ==
    UNCHANGED <<window, mem, mlast, mprev, tpc, tdata, tentry, tlog, mig, ana>>

StockWithinBound(d) ==
    \A i \in 1..Len(d.stock) : d.stock[i].quantity <= MaxStock

\* addOrUpdateEntry(entry): what saveData returns and the slot afterwards
addOrUpdateEntry(win, setItemThrows, st, entry) ==
    saveData(win, setItemThrows, st, addOrUpdateBody(loadData(win, st), entry))

\* deleteEntry working on the stored document as it is instead of on what
\* loadData() makes of it
deleteEntryOnStored(win, setItemThrows, st, entryId) ==
    saveData(win, setItemThrows, st,
             deleteBody(IF win /\ st.kind = "json" THEN st.value
                        ELSE getDefaultData, entryId))

\* deleteEntry(entryId): what saveData returns and the slot afterwards
deleteEntry(win, setItemThrows, st, entryId) ==
    saveData(win, setItemThrows, st, deleteBody(loadData(win, st), entryId))

\* addOrUpdateEntry(entry)
AddOrUpdateEntry ==
    \E entry \in EntryInputs, setItemThrows \in BOOLEAN :
        LET data == loadData(window, store)
            out == addOrUpdateBody(data, entry)
            r == saveData(window, setItemThrows, store, out)
        IN  /\ StockWithinBound(out)
            /\ store' = r.store
            /\ last' = [op |-> "addOrUpdateEntry", entry |-> entry,
                        before |-> store, loaded |-> data, data |-> out,
                        threw |-> setItemThrows, ok |-> r.ok]
            /\ Untouched

\* deleteEntry(entryId)
DeleteEntry ==
    \E entryId \in EntryIds, setItemThrows \in BOOLEAN :
        LET data == loadData(window, store)
            out == deleteBody(data, entryId)
            r == saveData(window, setItemThrows, store, out)
        IN  /\ store' = r.store
            /\ last' = [op |-> "deleteEntry", entryId |-> entryId,
                        before |-> store, loaded |-> data, data |-> out,
                        threw |-> setItemThrows, ok |-> r.ok]
            /\ Untouched

\* loadData() called by a view
LoadData ==
    /\ last' = [op |-> "loadData", before |-> store,
                out |-> loadData(window, store)]
    /\ UNCHANGED store
    /\ Untouched

\* saveData(doc) called by a view (stock management, import)
SaveData ==
    \E doc \in DocInputs, setItemThrows \in BOOLEAN :
        LET r == saveData(window, setItemThrows, store, doc)
        IN  /\ store' = r.store
            /\ last' = [op |-> "saveData", doc |-> doc, before |-> store,
                        threw |-> setItemThrows, ok |-> r.ok]
            /\ Untouched

\* clearData()
ClearData ==
    /\ store' = IF window THEN Absent ELSE store
    /\ last' = [op |-> "clearData", before |-> store, ok |-> window]
    /\ Untouched

Next == AddOrUpdateEntry \/ DeleteEntry \/ LoadData \/ SaveData \/ ClearData

Spec == Init /\ [][Next]_vars

----------------------------------------------------------------------------
(* Claims about the store and the ledger over localStorage (Spec) *)

IsLedgerCall == last.op \in {"addOrUpdateEntry", "deleteEntry"}

\* quantity, totalSold and unitPrice of every item, in order
StockFigures(stock) ==
    [i \in 1..Len(stock) |->
        Pick(stock[i], {"id", "quantity", "totalSold", "unitPrice"})]

\* The last call added a valid SALE whose product is in no stock item of the
\* persisted document, which was a document saveData accepts, and the storage
\* itself did not fail
MissingProductSaleAdded ==
    /\ last.op = "addOrUpdateEntry"
    /\ window /\ ~last.threw
    /\ last.before.kind = "json"
    /\ isValidBusinessData(last.before.value)
    /\ last.entry.type = "SALE"
    /\ isValidDailyEntry(last.entry)
    /\ FindIndexById(last.before.value.stock, last.entry.productId) = 0
    /\ FindIndexById(last.before.value.entries, last.entry.id) = 0

\* C5: adding a SALE whose productId matches no stock item returns success
\* and persists the entry with its amount, and the persisted stock list
\* (quantity, totalSold, unitPrice of every item) is what it was before.
MissingProductSaleRecorded ==
    MissingProductSaleAdded =>
        /\ last.ok
        /\ store.kind = "json"
        /\ \E i \in 1..Len(store.value.entries) :
              /\ store.value.entries[i].id = last.entry.id
              /\ store.value.entries[i].amount = last.entry.amount
        /\ StockFigures(store.value.stock) = StockFigures(last.before.value.stock)

\* C6: a ledger call that returns failure leaves the persisted value exactly
\* as it was before the call.
FailureWritesNothing ==
    (IsLedgerCall /\ ~last.ok) => store = last.before

\* A ledger call changed the document in memory, validation refused it and
\* the slot still holds the earlier document
FailureWritesNothingWitness ==
    /\ last.op = "addOrUpdateEntry" /\ ~last.ok
    /\ window /\ ~last.threw
    /\ last.data # last.loaded
    /\ last.data.stock # last.loaded.stock
    /\ store.kind = "json" /\ store = last.before

IsDefaultDocument(d) ==
    /\ d.settings.name = "" /\ ~Has(d.settings, "dailyTarget")
    /\ d.entries = <<>> /\ d.stock = <<>>

\* The document a load hands to its caller, and the slot it read
LoadResult == IF last.op = "loadData" THEN last.out ELSE last.loaded
HasLoadResult == last.op = "loadData" \/ IsLedgerCall

\* C7: load returns the default document when the slot is absent, is not
\* parsable, or fails validation after migration; whatever it returns is the
\* default document or a document that passes validation, never a migrated
\* document that failed it.
LoadReturnsDefaultOrValid ==
    HasLoadResult =>
        /\ (last.before.kind \in {"absent", "garbage", "null"}
                => IsDefaultDocument(LoadResult))
        /\ (last.before.kind = "json"
              /\ ~isValidBusinessData(Migrated(last.before.value))
                => IsDefaultDocument(LoadResult))
        /\ (IsDefaultDocument(LoadResult) \/ isValidBusinessData(LoadResult))

\* A load read a stored document that migration changed and that still
\* fails validation, and handed out the default document
LoadReturnsDefaultWitness ==
    /\ last.op = "loadData" /\ window
    /\ last.before.kind = "json"
    /\ Migrated(last.before.value) # last.before.value
    /\ ~isValidBusinessData(Migrated(last.before.value))
    /\ IsDefaultDocument(last.out)

\* C8: saveData(doc) with a document that fails validation returns false and
\* leaves the slot unchanged; it returns true only for a document that passes
\* validation, and then the slot holds that document.
SaveRefusesInvalid ==
    last.op = "saveData" =>
        /\ (~isValidBusinessData(last.doc) => ~last.ok /\ store = last.before)
        /\ (last.ok => isValidBusinessData(last.doc) /\ store = Json(last.doc))
        /\ (store # last.before => last.ok)

\* saveData refused an invalid document while a different document was
\* persisted, with localStorage working
SaveRefusesInvalidWitness ==
    /\ last.op = "saveData" /\ window /\ ~last.threw
    /\ ~isValidBusinessData(last.doc) /\ ~last.ok
    /\ store.kind = "json" /\ store.value # last.doc

----------------------------------------------------------------------------
(* The ledger handlers step after step (SpecLedger).  The slot holds a      *)
(* document at every step; mem is that document.  Each handler loads it     *)
(* with loadData(), changes what it loaded and hands the result to          *)
(* saveData().                                                              *)

\* Sales are priced 10 a unit here.  Entry e1 ranges over every kind of
\* entry, e2 over one sale and one stocking expense.
LedgerEntries ==
    {Sale("e1", pid, q, 10 * q) : pid \in {"p1", "p2"}, q \in 1..MaxQty}
    \cup {StockExpense("e1", "p1", 2, 5), Expense("e1", "Transport", 4)}
    \cup {Sale("e2", "p1", 1, 10), StockExpense("e2", "p1", 2, 5)}

\* Two products entered through the form of the stock page: the submission of
\* the second loads the document, which hands the first out without its
\* hasInitialStockTransaction member, and pushes its own newItem
LedgerInitDocs ==
    {TypedDoc(<<>>, <<migrateStockItemToNewFormat(Item("p1", q, 0)),
                      Item("p2", 1, 0)>>) : q \in 0..2}

\* The ids of these products
LedgerProducts == {"p1", "p2"}

LedgerInit ==
    /\ mem \in LedgerInitDocs
    /\ mlast = NoCall /\ mprev = NoCall
    /\ store = Absent /\ window = TRUE /\ last = NoCall
    /\ tpc = <<>> /\ tdata = <<>> /\ tentry = <<>> /\ tlog = <<>>
    /\ mig = NoCall /\ ana = NoCall

LedgerUntouched ==
    UNCHANGED <<store, window, last, tpc, tdata, tentry, tlog, mig, ana>>

\* What a later step needs of an earlier one: the call, and the stock it met
StepRecord(op, entry, old, stock) ==
    [op |-> op, entry |-> entry, old |-> old, stock |-> stock]

\* The same for a handler: also the document it handed to saveData and what
\* saveData returned
HandlerRecord(op, entry, old, before, built, ok) ==
    [op |-> op, entry |-> entry, old |-> old, stock |-> before.stock,
     before |-> before, built |-> built, ok |-> ok]

\* The document addOrUpdateEntry(entry) hands to saveData when the slot
\* holds doc
BuiltByAdd(doc, entry) == addOrUpdateBody(loadData(TRUE, Json(doc)), entry)

\* The document deleteEntry(entryId) hands to saveData when the slot holds
\* doc
BuiltByDelete(doc, entryId) == deleteBody(loadData(TRUE, Json(doc)), entryId)

\* The document the slot holds after addOrUpdateEntry(entry)
AfterAdd(doc, entry) ==
    addOrUpdateEntry(TRUE, FALSE, Json(doc), entry).store.value

\* The document the slot holds after deleteEntry(entryId)
AfterDelete(doc, entryId) ==
    deleteEntry(TRUE, FALSE, Json(doc), entryId).store.value

\* addOrUpdateEntry(entry) with an id the slot does not hold
LedgerAdd ==
    \E entry \in LedgerEntries :
        /\ FindIndexById(mem.entries, entry.id) = 0
        /\ StockWithinBound(BuiltByAdd(mem, entry))
        /\ mem' = AfterAdd(mem, entry)
        /\ mlast' = HandlerRecord("add", entry, entry, mem,
                        BuiltByAdd(mem, entry),
                        addOrUpdateEntry(TRUE, FALSE, Json(mem), entry).ok)
        /\ mprev' = mlast
        /\ LedgerUntouched

\* addOrUpdateEntry(entry) with the id of an entry the slot holds
LedgerUpdate ==
    \E entry \in LedgerEntries :
        /\ FindIndexById(mem.entries, entry.id) > 0
        /\ StockWithinBound(BuiltByAdd(mem, entry))
        /\ mem' = AfterAdd(mem, entry)
        /\ mlast' = HandlerRecord("update", entry,
                        mem.entries[FindIndexById(mem.entries, entry.id)],
                        mem, BuiltByAdd(mem, entry),
                        addOrUpdateEntry(TRUE, FALSE, Json(mem), entry).ok)
        /\ mprev' = mlast
        /\ LedgerUntouched

\* deleteEntry(entryId) with the id of an entry the slot holds
LedgerDelete ==
    \E entryId \in EntryIds :
        /\ FindIndexById(mem.entries, entryId) > 0
        /\ StockWithinBound(BuiltByDelete(mem, entryId))
        /\ mem' = AfterDelete(mem, entryId)
        /\ mlast' = HandlerRecord("delete",
                        mem.entries[FindIndexById(mem.entries, entryId)],
                        mem.entries[FindIndexById(mem.entries, entryId)],
                        mem, BuiltByDelete(mem, entryId),
                        deleteEntry(TRUE, FALSE, Json(mem), entryId).ok)
        /\ mprev' = mlast
        /\ LedgerUntouched

LedgerNext == LedgerAdd \/ LedgerUpdate \/ LedgerDelete

SpecLedger == LedgerInit /\ [][LedgerNext]_vars

----------------------------------------------------------------------------
(* Claims about the ledger arithmetic (SpecLedger) *)

InStock(stock, pid) == FindIndexById(stock, pid) > 0
ItemOf(stock, pid) == stock[FindIndexById(stock, pid)]

IsSaleOf(entry) ==
    /\ entry.type = "SALE" /\ HasProductAndQuantity(entry) /\ entry.quantity > 0

\* C1: after every add, update or delete, starting from quantities >= 0,
\* every stock item of the document the slot holds has quantity >= 0, and so
\* has every stock item of the document the handler handed to saveData.
StockNeverNegative ==
    /\ \A i \in 1..Len(mem.stock) : mem.stock[i].quantity >= 0
    /\ mlast.op \in {"add", "update", "delete"} =>
           \A i \in 1..Len(mlast.built.stock) :
               mlast.built.stock[i].quantity >= 0

\* A sale of more units than the product had was added, or a stocking
\* expense was undone on a product holding fewer units than it had added:
\* the product is left with 0 units
StockNeverNegativeWitness ==
    /\ mlast.op \in {"add", "delete"}
    /\ HasProductAndQuantity(mlast.entry)
    /\ InStock(mlast.stock, mlast.entry.productId)
    /\ \/ mlast.op = "add" /\ mlast.entry.type = "SALE"
       \/ mlast.op = "delete" /\ mlast.entry.type = "EXPENSE"
    /\ ItemOf(mlast.stock, mlast.entry.productId).quantity < mlast.entry.quantity
    /\ mlast.ok
    /\ InStock(mem.stock, mlast.entry.productId)
    /\ ItemOf(mem.stock, mlast.entry.productId).quantity = 0

\* The last two steps added a SALE of q units of a product in stock and then
\* deleted that same entry
SaleAddedThenDeleted ==
    /\ mprev.op = "add" /\ mlast.op = "delete"
    /\ mlast.entry = mprev.entry
    /\ IsSaleOf(mprev.entry)
    /\ InStock(mprev.stock, mprev.entry.productId)
    /\ ItemOf(mprev.stock, mprev.entry.productId).quantity >= 0

\* C2: adding a SALE of q units of P and then deleting that entry leaves
\* P.quantity and P.totalSold equal to their values before the add.
AddDeleteRoundTrip ==
    SaleAddedThenDeleted =>
        LET pid == mprev.entry.productId
        IN  /\ InStock(mem.stock, pid)
            /\ ItemOf(mem.stock, pid).quantity = ItemOf(mprev.stock, pid).quantity
            /\ ItemOf(mem.stock, pid).totalSold = ItemOf(mprev.stock, pid).totalSold

\* The last step replaced a SALE of a units of P by a SALE of b units of P
SaleQuantityUpdated ==
    /\ mlast.op = "update"
    /\ IsSaleOf(mlast.old) /\ IsSaleOf(mlast.entry)
    /\ mlast.old.productId = mlast.entry.productId
    /\ InStock(mlast.stock, mlast.entry.productId)

\* C3: updating a SALE on P from a units to b units changes P.quantity by
\* exactly a - b, whatever the stock level at the time of the update.
UpdateChangesByDifference ==
    SaleQuantityUpdated =>
        LET pid == mlast.entry.productId
        IN  /\ InStock(mem.stock, pid)
            /\ ItemOf(mem.stock, pid).quantity - ItemOf(mlast.stock, pid).quantity
                   = mlast.old.quantity - mlast.entry.quantity

\* The last two steps added a SALE of q units of P and then updated that
\* entry to a SALE of q units of another product Q
SaleMovedToOtherProduct ==
    /\ mprev.op = "add" /\ mlast.op = "update"
    /\ mlast.old = mprev.entry
    /\ IsSaleOf(mlast.old) /\ IsSaleOf(mlast.entry)
    /\ mlast.old.productId # mlast.entry.productId
    /\ mlast.old.quantity = mlast.entry.quantity
    /\ InStock(mprev.stock, mlast.old.productId)
    /\ InStock(mprev.stock, mlast.entry.productId)

\* C4: after a SALE of q units is moved from P to Q, P.quantity and
\* P.totalSold are what they were before the entry was added, and the q units
\* are applied to Q only.
UpdateLeavesNoResidue ==
    SaleMovedToOtherProduct =>
        LET p == mlast.old.productId
            q == mlast.entry.productId
        IN  /\ InStock(mem.stock, p) /\ InStock(mem.stock, q)
            /\ ItemOf(mem.stock, p).quantity = ItemOf(mprev.stock, p).quantity
            /\ ItemOf(mem.stock, p).totalSold = ItemOf(mprev.stock, p).totalSold
            /\ ItemOf(mem.stock, q).quantity
                  = Max0(ItemOf(mprev.stock, q).quantity - mlast.entry.quantity)
            /\ ItemOf(mem.stock, q).totalSold
                  = ItemOf(mprev.stock, q).totalSold + mlast.entry.quantity

----------------------------------------------------------------------------
(* Two browser tabs sharing the slot (SpecTabs): each runs one              *)
(* addOrUpdateEntry; its loadData() and its saveData() are separate steps   *)
(* because nothing orders the tabs' accesses to localStorage.               *)

Tabs == {1, 2}

TabEntries ==
    {Sale(id, "p1", q, 10) : id \in EntryIds, q \in 1..MaxQty}
    \cup {StockExpense(id, "p1", 2, 5) : id \in EntryIds}
    \cup {Expense(id, "Transport", 4) : id \in EntryIds}

TabsInit ==
    /\ store \in {Absent} \cup {Json(d) : d \in StockOnlyDocs}
    /\ window = TRUE
    /\ tpc = [t \in Tabs |-> "idle"]
    /\ tdata = [t \in Tabs |-> getDefaultData]
    /\ tentry = [t \in Tabs |-> NoCall]
    /\ tlog = <<>>
    /\ last = NoCall /\ mem = getDefaultData /\ mlast = NoCall /\ mprev = NoCall
    /\ mig = NoCall /\ ana = NoCall

TabsUntouched == UNCHANGED <<window, last, mem, mlast, mprev, mig, ana>>

\* const data = loadData();
TabLoad ==
    \E t \in Tabs, entry \in TabEntries :
        /\ tpc[t] = "idle"
        /\ tpc' = [tpc EXCEPT ![t] = "loaded"]
        /\ tdata' = [tdata EXCEPT ![t] = loadData(window, store)]
        /\ tentry' = [tentry EXCEPT ![t] = entry]
        /\ tlog' = Append(tlog, [ev |-> "load", tab |-> t])
        /\ UNCHANGED store
        /\ TabsUntouched

\* the rest of addOrUpdateEntry: mutate the loaded document, saveData(data)
TabSave ==
    \E t \in Tabs, setItemThrows \in BOOLEAN :
        /\ tpc[t] = "loaded"
        /\ LET out == addOrUpdateBody(tdata[t], tentry[t])
               r == saveData(window, setItemThrows, store, out)
           IN  /\ store' = r.store
               /\ tlog' = Append(tlog, [ev |-> "save", tab |-> t, ok |-> r.ok,
                                        threw |-> setItemThrows])
        /\ tpc' = [tpc EXCEPT ![t] = "done"]
        /\ UNCHANGED <<tdata, tentry>>
        /\ TabsUntouched

TabsNext == TabLoad \/ TabSave

SpecTabs == TabsInit /\ [][TabsNext]_vars

\* Both tabs loaded before either saved, both have saved, and localStorage
\* did not fail
BothLoadedBeforeEitherSaved ==
    /\ Len(tlog) = 4
    /\ tlog[1].ev = "load" /\ tlog[2].ev = "load"
    /\ ~tlog[3].threw /\ ~tlog[4].threw

\* C9: when both cycles load before either saves, both saves report success
\* and the persisted document is the later saver's entry applied to the
\* document that saver loaded; the earlier saver's entry is not in it.
LaterSaveWins ==
    BothLoadedBeforeEitherSaved =>
        LET earlier == tlog[3].tab
            later == tlog[4].tab
        IN  /\ tlog[3].ok /\ tlog[4].ok
            /\ store = Json(addOrUpdateBody(tdata[later], tentry[later]))
            /\ (tentry[earlier].id # tentry[later].id
                  => FindIndexById(store.value.entries, tentry[earlier].id) = 0)

\* The two tabs recorded different sales of the same product from the same
\* snapshot; only the later one is persisted
LaterSaveWinsWitness ==
    /\ BothLoadedBeforeEitherSaved
    /\ tentry[1].id # tentry[2].id
    /\ tentry[1].type = "SALE" /\ tentry[2].type = "SALE"
    /\ tdata[1] = tdata[2] /\ Len(tdata[1].stock) = 1
    /\ Len(store.value.entries) = 1
    /\ store.value.entries[1] = tentry[tlog[4].tab]
    /\ store.value.stock[1].totalSold = tentry[tlog[4].tab].quantity

----------------------------------------------------------------------------
(* Migration of a stored legacy document (SpecMigrate) *)

MaxLegacyAmount == 2

LegacyAmounts == (0..MaxLegacyAmount) \cup {30000, 100000}

LegacyEntries ==
    {[id |-> id, date |-> EntryDate(id), sales |-> s, expenses |-> e,
      timestamp |-> EntryTimestamp(id)] : id \in {"e1"}, s \in LegacyAmounts,
                                          e \in LegacyAmounts}
    \cup {[id |-> "e2", date |-> "2025-06-01", sales |-> s, expenses |-> 0]
            : s \in LegacyAmounts}

LegacyStockItems ==
    {[id |-> "p1", name |-> "Savon", quantity |-> q, threshold |-> 1]
        : q \in 0..MaxQty}
    \cup {[id |-> "p2", name |-> "Savon", quantity |-> 1, threshold |-> 0,
           totalSold |-> 2, unitPrice |-> 5]}

LegacyDocs ==
    {[settings |-> Settings, entries |-> <<e>>, stock |-> <<i>>]
        : e \in LegacyEntries, i \in LegacyStockItems}
    \cup {[settings |-> Settings, entries |-> <<e, f>>, stock |-> <<i, j>>]
        : e \in {x \in LegacyEntries : x.id = "e1" /\ x.expenses = 30000},
          f \in {x \in LegacyEntries : x.id = "e2"},
          i \in {x \in LegacyStockItems : x.id = "p1"},
          j \in {x \in LegacyStockItems : x.id = "p2"}}

MigrateInit ==
    /\ mig = NoCall
    /\ store \in {Json(d) : d \in LegacyDocs}
    /\ window = TRUE /\ last = NoCall
    /\ mem = getDefaultData /\ mlast = NoCall /\ mprev = NoCall
    /\ tpc = <<>> /\ tdata = <<>> /\ tentry = <<>> /\ tlog = <<>>
    /\ ana = NoCall

\* The migration pass of loadData over the parsed document
MigrateStored ==
    /\ mig.op = "none"
    /\ mig' = [op |-> "migrate", in |-> store.value, out |-> Migrated(store.value)]
    /\ UNCHANGED <<store, window, last, mem, mlast, mprev, tpc, tdata, tentry,
                   tlog, ana>>

MigrateNext == MigrateStored

SpecMigrate == MigrateInit /\ [][MigrateNext]_vars

\* Sum of the total member of sale lines, of the amount member of expense lines
TotalOf(item) == item.total
AmountOf(item) == item.amount
SaleSum(entry) == SumSeq(MapSeq(entry.saleItems, TotalOf))
ExpenseSum(entry) == SumSeq(MapSeq(entry.expenseItems, AmountOf))

\* C10: a migrated legacy document has, entry by entry, the same id and date,
\* sale lines summing to the legacy sales and expense lines summing to the
\* legacy expenses; item by item, the same id and quantity and a numeric
\* totalSold, 0 where the legacy item had none.
MigrationPreservesTotals ==
    mig.op = "migrate" =>
        /\ Len(mig.out.entries) = Len(mig.in.entries)
        /\ \A i \in 1..Len(mig.in.entries) :
              /\ mig.out.entries[i].id = mig.in.entries[i].id
              /\ mig.out.entries[i].date = mig.in.entries[i].date
              /\ SaleSum(mig.out.entries[i]) = mig.in.entries[i].sales
              /\ ExpenseSum(mig.out.entries[i]) = mig.in.entries[i].expenses
        /\ Len(mig.out.stock) = Len(mig.in.stock)
        /\ \A i \in 1..Len(mig.in.stock) :
              /\ mig.out.stock[i].id = mig.in.stock[i].id
              /\ mig.out.stock[i].quantity = mig.in.stock[i].quantity
              /\ Has(mig.out.stock[i], "totalSold")
              /\ mig.out.stock[i].totalSold
                    = IF Has(mig.in.stock[i], "totalSold")
                      THEN mig.in.stock[i].totalSold ELSE 0

\* The legacy entry {sales: 100000, expenses: 30000} and a stock item without
\* totalSold were migrated
MigrationPreservesTotalsWitness ==
    /\ mig.op = "migrate"
    /\ mig.in.entries[1].sales = 100000 /\ mig.in.entries[1].expenses = 30000
    /\ ~Has(mig.in.entries[1], "saleItems")
    /\ Len(mig.out.entries[1].saleItems) = 1
    /\ Len(mig.out.entries[1].expenseItems) = 1
    /\ ~Has(mig.in.stock[1], "totalSold")
    /\ mig.out.stock[1].totalSold = 0

----------------------------------------------------------------------------
(* Import of an export file through the settings page (SpecImport) *)

ImportInit ==
    /\ store \in {Absent, Json(LegacyDoc)} \cup {Json(d) : d \in StockOnlyDocs}
    /\ window = TRUE
    /\ last = NoCall
    /\ OtherVarsInit

\* handleFileSelect: the user picks a file in the import dialog.  named is
\* whether the file name ends in .json; confirmed is the answer to
\* window.confirm, asked only when importJSON accepted the file; setItemThrows
\* is whether localStorage.setItem raises, called only when saving
HandleFileSelect ==
    \E file \in ImportFiles, named \in BOOLEAN :
        LET result == IF named THEN importJSON(file) ELSE NoCall
            accepted == named /\ ~IsThrown(result) /\ result.ok
        IN  \E confirmed \in (IF accepted THEN BOOLEAN ELSE {FALSE}) :
            \E setItemThrows \in (IF confirmed THEN BOOLEAN ELSE {FALSE}) :
                LET currentData == loadData(window, store)
                    r == IF confirmed
                         THEN saveData(window, setItemThrows, store,
                                  ImportedDocument(result.data, currentData.settings))
                         ELSE [ok |-> FALSE, store |-> store]
                IN  /\ store' = r.store
                    /\ last' = [op |-> "import", file |-> file, named |-> named,
                                result |-> result, confirmed |-> confirmed,
                                threw |-> setItemThrows, before |-> store,
                                ok |-> r.ok]
                    /\ Untouched

ImportNext == HandleFileSelect

SpecImport == ImportInit /\ [][ImportNext]_vars

\* The last import was handed this file under a name ending in .json
Imported(file) == last.op = "import" /\ last.named /\ last.file = file

\* Whether the field checks of the claim pass on a parsed value
PassesFieldChecks(j) ==
    /\ j.t = "object"
    /\ Member(j, "version") = JNum(1)
    /\ Member(j, "stock").t = "array"
    /\ Member(j, "entries").t = "array"
    /\ \A i \in 1..Len(Member(j, "stock").items) :
          LET item == Member(j, "stock").items[i]
          IN  /\ item.t \in {"object", "array"}
              /\ Member(item, "id").t = "string"
              /\ Member(item, "name").t = "string"
              /\ Member(item, "quantity").t = "number"
    /\ \A i \in 1..Len(Member(j, "entries").items) :
          LET entry == Member(j, "entries").items[i]
          IN  /\ entry.t \in {"object", "array"}
              /\ Member(entry, "id").t = "string"
              /\ Member(entry, "timestamp").t = "number"
              /\ Member(entry, "type") \in {JStr("SALE"), JStr("EXPENSE")}
              /\ Member(entry, "amount").t = "number"

\* C14: importJSON never throws; it returns {ok: false, error} for a file
\* that cannot be read or parsed and for a payload that fails a check, and
\* {ok: true} only for a payload passing every check; a rejected import
\* leaves the persisted document unchanged.
ImportReturnsResult ==
    (last.op = "import" /\ last.named) =>
        /\ ~IsThrown(last.result)
        /\ (last.file.kind # "json" => ~last.result.ok)
        /\ (last.file.kind = "json" =>
                (last.result.ok <=> PassesFieldChecks(last.file.value)))
        /\ (~last.result.ok => store = last.before)

----------------------------------------------------------------------------
(* Analytics: lib/profit.ts and the health score (unnamed/part_001).        *)
(* The functions read the date, sales and expenses members of an entry,     *)
(* which every entry handed out by loadData carries (migrateEntryToNewFormat *)
(* sets both figures).  The clock is an input; local time is UTC.           *)

MaxProfit == 4       \* daily profits of a full week range over -MaxProfit..MaxProfit

\* Calendar days of the analytics model, consecutive and in order
AnalyticsDays ==
    <<"2025-05-20", "2025-05-21", "2025-05-22", "2025-05-23", "2025-05-24",
      "2025-05-25", "2025-05-26", "2025-05-27", "2025-05-28", "2025-05-29",
      "2025-05-30", "2025-05-31", "2025-06-01", "2025-06-02", "2025-06-03",
      "2025-06-04">>

DayMs == 86400000

DayNumber(d) == CHOOSE i \in 1..Len(AnalyticsDays) : AnalyticsDays[i] = d

\* new Date(e.date).getTime(): midnight UTC of the day, counted in ms from the
\* first day of the model
DateInstant(d) == (DayNumber(d) - 1) * DayMs

\* The "YYYY-MM" prefix of a day
MonthOf(d) == IF DayNumber(d) <= 12 THEN "2025-05" ELSE "2025-06"

\* new Date(): the calendar day and the milliseconds elapsed in it
NowInstant(now) == DateInstant(now.day) + now.ms

\* startDate.setDate(startDate.getDate() - n): n days earlier, same time of day
DaysBefore(now, n) == NowInstant(now) - n * DayMs

\* toISOString().split("T")[0] of the instant n days before now
DayStringBefore(now, n) == AnalyticsDays[DayNumber(now.day) - n]

\* A quotient n / d kept exact; the sign is carried by num
Frac(n, d) == IF d < 0 THEN [num |-> 0 - n, den |-> 0 - d] ELSE [num |-> n, den |-> d]
FracLt(a, b) == a.num * b.den < b.num * a.den
FracEq(a, b) == a.num * b.den = b.num * a.den

calculateProfit(sales, expenses) == sales - expenses

ProfitOf(e) == calculateProfit(e.sales, e.expenses)
SalesOf(e) == e.sales
ExpensesOf(e) == e.expenses

\* entries.filter(e => new Date(e.date) >= from && new Date(e.date) <= to)
EntriesBetween(entries, from, to) ==
    SelectSeq(entries, LAMBDA e : DateInstant(e.date) >= from /\ DateInstant(e.date) <= to)

getTodayProfit(entries, now) ==
    IF \E i \in 1..Len(entries) : entries[i].date = now.day
    THEN LET first == CHOOSE i \in 1..Len(entries) :
                         /\ entries[i].date = now.day
                         /\ \A j \in 1..(i - 1) : entries[j].date # now.day
         IN  ProfitOf(entries[first])
    ELSE 0

getMonthlyProfit(entries, now) ==
    SumSeq(MapSeq(SelectSeq(entries, LAMBDA e : MonthOf(e.date) = MonthOf(now.day)),
                  ProfitOf))

\* The number type of the two half means: IEEE 754 binary64, round to nearest,
\* ties to even. A double is sign * m * 2^e with a significand m of 53 bits,
\* kept as limbs of 15 bits, least significant first; the half means and
\* their products with 1.05 and 0.95 are normal numbers or zero.
LimbBase == 2^15

\* The element of a set of one element; The({F(x) : x \in {e}}) is F applied
\* to the value of e
The(S) == CHOOSE x \in S : TRUE

RECURSIVE Limbs(_)
Limbs(n) == IF n = 0 THEN <<>> ELSE <<n % LimbBase>> \o Limbs(n \div LimbBase)

RECURSIVE Trim(_)
Trim(a) ==
    IF a = <<>> \/ a[Len(a)] # 0 THEN a ELSE Trim(SubSeq(a, 1, Len(a) - 1))

\* a * k + carry, k and carry below LimbBase
RECURSIVE LimbsTimes(_, _, _)
LimbsTimes(a, k, carry) ==
    IF a = <<>> THEN Limbs(carry)
    ELSE The({<<t % LimbBase>> \o LimbsTimes(rest, k, t \div LimbBase)
                 : t \in {a[1] * k + carry}, rest \in {Tail(a)}})

\* a + b + carry
RECURSIVE LimbsPlus(_, _, _)
LimbsPlus(a, b, carry) ==
    IF a = <<>> /\ b = <<>> THEN Limbs(carry)
    ELSE The({<<t % LimbBase>> \o LimbsPlus(ra, rb, t \div LimbBase)
                 : t \in {(IF a = <<>> THEN 0 ELSE a[1])
                            + (IF b = <<>> THEN 0 ELSE b[1]) + carry},
                   ra \in {IF a = <<>> THEN <<>> ELSE Tail(a)},
                   rb \in {IF b = <<>> THEN <<>> ELSE Tail(b)}})

RECURSIVE LimbsProduct(_, _)
LimbsProduct(a, b) ==
    IF b = <<>> THEN <<>>
    ELSE The({LimbsPlus(low, high, 0)
                 : low \in {LimbsTimes(a, b[1], 0)},
                   high \in {<<0>> \o LimbsProduct(a, Tail(b))}})

\* Quotient q and remainder r of a by n, 0 < n <= LimbBase
RECURSIVE LimbsOver(_, _)
LimbsOver(a, n) ==
    IF a = <<>> THEN [q |-> <<>>, r |-> 0]
    ELSE The({[q |-> <<(upper.r * LimbBase + a[1]) \div n>> \o upper.q,
               r |-> (upper.r * LimbBase + a[1]) % n]
                 : upper \in {LimbsOver(Tail(a), n)}})

RECURSIVE BitsOf(_)
BitsOf(n) == IF n = 0 THEN 0 ELSE 1 + BitsOf(n \div 2)

BitLength(a) == IF a = <<>> THEN 0 ELSE 15 * (Len(a) - 1) + BitsOf(a[Len(a)])

\* a < b for a and b of the same number of limbs
LimbsLess(a, b) ==
    \E i \in 1..Len(a) : a[i] < b[i] /\ \A j \in (i + 1)..Len(a) : a[j] = b[j]

\* a \div 2^k, and whether a bit of a below 2^k is set
ShiftedRight(a, k) ==
    The({[q |-> Trim(cut.q),
          sticky |-> cut.r # 0 \/ \E i \in 1..(k \div 15) : a[i] # 0]
            : cut \in {LimbsOver(SubSeq(a, k \div 15 + 1, Len(a)), 2^(k % 15))}})

\* The nearest of h \div 2 and h \div 2 + 1 for h with the rounding bit in
\* its lowest place; the even one when h is halfway and nothing lies below it
Halved(h, sticky) ==
    The({IF half.r = 1 /\ (sticky \/ half.q[1] % 2 = 1)
         THEN LimbsPlus(Trim(half.q), <<>>, 1) ELSE Trim(half.q)
            : half \in {LimbsOver(h, 2)}})

\* m * 2^e with m of 53 bits, or m = 2^53
Normal(m, e) ==
    IF BitLength(m) > 53 THEN [m |-> Trim(LimbsOver(m, 2).q), e |-> e + 1]
    ELSE [m |-> m, e |-> e]

\* The 53-bit significand and the exponent nearest to a * 2^e, or to a little
\* more than a * 2^e when inexact; a has more than 53 bits
RoundToDouble(a, inexact, e) ==
    The({The({Normal(m, e + BitLength(a) - 53)
                 : m \in {Halved(shifted.q, inexact \/ shifted.sticky)}})
            : shifted \in {ShiftedRight(a, BitLength(a) - 54)}})

DoubleZero == [sign |-> 0, m |-> <<>>, e |-> 0]

\* s / n for integers s and 0 < n < LimbBase
DoubleOver(s, n) ==
    IF s = 0 THEN DoubleZero
    ELSE The({The({[sign |-> IF s < 0 THEN -1 ELSE 1, m |-> r.m, e |-> r.e]
                      : r \in {RoundToDouble(Trim(d.q), d.r # 0, -75)}})
                 : d \in {LimbsOver(<<0, 0, 0, 0, 0>>
                                        \o Limbs(IF s < 0 THEN 0 - s ELSE s), n)}})

\* x * y
DoubleTimes(x, y) ==
    IF x.sign = 0 \/ y.sign = 0 THEN DoubleZero
    ELSE The({The({[sign |-> x.sign * y.sign, m |-> r.m, e |-> r.e]
                      : r \in {RoundToDouble(p, FALSE, x.e + y.e)}})
                 : p \in {Trim(LimbsProduct(x.m, y.m))}})

\* x < y
DoubleLess(x, y) ==
    LET Smaller(a, b) == a.e < b.e \/ (a.e = b.e /\ LimbsLess(a.m, b.m))
    IN  IF x.sign # y.sign THEN x.sign < y.sign
        ELSE IF x.sign = 1 THEN Smaller(x, y)
        ELSE IF x.sign = -1 THEN Smaller(y, x)
        ELSE FALSE

\* The literals 1.05 and 0.95
Literal105 == DoubleOver(105, 100)
Literal095 == DoubleOver(95, 100)

\* Lines 79-86 for the sums and the lengths of the two halves
HalfMeansTrend(s1, n1, s2, n2) ==
    The({IF DoubleLess(DoubleTimes(firstHalfAvg, Literal105), secondHalfAvg) THEN 1
         ELSE IF DoubleLess(secondHalfAvg, DoubleTimes(firstHalfAvg, Literal095))
         THEN -1
         ELSE 0
            : firstHalfAvg \in {DoubleOver(s1, n1)},
              secondHalfAvg \in {DoubleOver(s2, n2)}})

getLast7DaysTrend(entries, now) ==
    LET last7Days == EntriesBetween(entries, DaysBefore(now, 6), NowInstant(now))
    IN  IF Len(last7Days) < 2 THEN 0
        ELSE LET midpoint == Len(last7Days) \div 2
                 firstHalf == SubSeq(last7Days, 1, midpoint)
                 secondHalf == SubSeq(last7Days, midpoint + 1, Len(last7Days))
             IN  HalfMeansTrend(SumSeq(MapSeq(firstHalf, ProfitOf)), Len(firstHalf),
                                SumSeq(MapSeq(secondHalf, ProfitOf)), Len(secondHalf))

\* getExpenseRatio dividing without looking at totalSales: a zero divisor
\* stays in the quotient (Infinity or NaN in JavaScript)
getExpenseRatioUnguarded(entries, now, days) ==
    LET filteredEntries ==
            EntriesBetween(entries, DaysBefore(now, days - 1), NowInstant(now))
    IN  IF Len(filteredEntries) = 0 THEN Frac(0, 1)
        ELSE Frac(SumSeq(MapSeq(filteredEntries, ExpensesOf)),
                  SumSeq(MapSeq(filteredEntries, SalesOf)))

getExpenseRatio(entries, now, days) ==
    LET filteredEntries ==
            EntriesBetween(entries, DaysBefore(now, days - 1), NowInstant(now))
    IN  IF Len(filteredEntries) = 0 THEN Frac(0, 1)
        ELSE LET totalSales == SumSeq(MapSeq(filteredEntries, SalesOf))
                 totalExpenses == SumSeq(MapSeq(filteredEntries, ExpensesOf))
             IN  IF totalSales = 0 THEN Frac(0, 1)
                 ELSE Frac(totalExpenses, totalSales)

\* The loop visits now - (days - 1) days, ..., now: one date string per day
getMissingEntryCount(entries, now, days) ==
    Cardinality({n \in 0..(days - 1) :
        ~\E i \in 1..Len(entries) : entries[i].date = DayStringBefore(now, n)})

getWeeklyGrowth(entries, now) ==
    LET currentWeekProfit ==
            SumSeq(MapSeq(EntriesBetween(entries, DaysBefore(now, 6), NowInstant(now)),
                          ProfitOf))
        prevWeekProfit ==
            SumSeq(MapSeq(EntriesBetween(entries, DaysBefore(now, 13), DaysBefore(now, 7)),
                          ProfitOf))
    IN  IF prevWeekProfit = 0 THEN Frac(0, 1)
        ELSE Frac((currentWeekProfit - prevWeekProfit) * 100, prevWeekProfit)

\* The internal 0-100 score before it is clamped; settings.dailyTarget is the
\* dailyTarget argument, undefined when the member is absent
HealthPoints(entries, settings, now) ==
    LET todayProfit == getTodayProfit(entries, now)
        monthlyProfit == getMonthlyProfit(entries, now)
        missingEntries == getMissingEntryCount(entries, now, 7)
        expenseRatio == getExpenseRatio(entries, now, 7)
        trend == getLast7DaysTrend(entries, now)
        weeklyGrowth == getWeeklyGrowth(entries, now)
        profitability ==
            (IF todayProfit > 0 THEN 5 ELSE IF todayProfit < 0 THEN -15 ELSE 0)
            + (IF monthlyProfit > 0 THEN 10 ELSE IF monthlyProfit < 0 THEN -20 ELSE 0)
        consistency ==
            IF missingEntries = 0 THEN 10
            ELSE IF missingEntries = 1 THEN 5
            ELSE IF missingEntries >= 5 THEN -10 ELSE 0
        expenseControl ==
            IF FracLt(expenseRatio, Frac(5, 10)) THEN 15
            ELSE IF FracLt(expenseRatio, Frac(7, 10)) THEN 5
            ELSE IF FracLt(Frac(9, 10), expenseRatio) THEN -15 ELSE -5
        momentum ==
            (IF trend = 1 THEN 10 ELSE IF trend = -1 THEN -10 ELSE 0)
            + (IF FracLt(Frac(10, 1), weeklyGrowth) THEN 5
               ELSE IF FracLt(weeklyGrowth, Frac(-10, 1)) THEN -5 ELSE 0)
        target ==
            IF Has(settings, "dailyTarget") /\ settings.dailyTarget # 0
                  /\ settings.dailyTarget > 0
            THEN IF todayProfit >= settings.dailyTarget THEN 10
                 ELSE IF 4 * todayProfit >= 3 * settings.dailyTarget THEN 5 ELSE 0
            ELSE 0
    IN  70 + profitability + consistency + expenseControl + momentum + target

\* calculateHealthScore converting the internal score without clamping it
calculateHealthScoreNoClamp(entries, settings, now) ==
    LET score == HealthPoints(entries, settings, now)
    IN  [score |-> Frac(RoundDiv(score * 10 * 2, 100), 2)]

\* The score member of the result; the message member is a text chosen from
\* the score and is not part of the model
calculateHealthScore(entries, settings, now) ==
    LET score == HealthPoints(entries, settings, now)
        clampedScore == Max0(IF score < 100 THEN score ELSE 100)
    IN  [score |-> Frac(RoundDiv(clampedScore * 10 * 2, 100), 2)]

----------------------------------------------------------------------------
(* The analytics functions applied to bounded entry lists (SpecAnalytics) *)

Today == "2025-06-03"

RECURSIVE Ascending(_)
Ascending(S) ==
    IF S = {} THEN <<>>
    ELSE LET m == CHOOSE x \in S : \A y \in S : x <= y
         IN  <<m>> \o Ascending(S \ {m})

Reversed(s) == [i \in 1..Len(s) |-> s[Len(s) + 1 - i]]

\* The entry of one day with profit p: a sale figure or an expense figure
DayEntry(n, p) ==
    [id |-> AnalyticsDays[n], date |-> AnalyticsDays[n],
     sales |-> Max0(p), expenses |-> Max0(0 - p)]

\* One entry for each of the last 7 calendar days, oldest first, with the
\* daily profits given
WeekOf(profits) ==
    [i \in 1..7 |-> DayEntry(DayNumber(Today) - 7 + i, profits[i])]

ProfitValues == (0 - MaxProfit)..MaxProfit

IncreasingWeeks ==
    {Ascending(S) : S \in {T \in SUBSET ProfitValues : Cardinality(T) = 7}}
DecreasingWeeks == {Reversed(w) : w \in IncreasingWeeks}
ConstantWeeks == {[i \in 1..7 |-> p] : p \in ProfitValues}

\* A week whose profit rises by 1 a day from 100
SlowRisingWeek == [i \in 1..7 |-> 99 + i]

\* A week of losses whose half means, -5 / 3 and -7 / 4, stand in the ratio
\* 1.05 exactly: the product (-5 / 3) * 1.05 rounds to -1.7500000000000002
RoundingWeek == <<-1, -2, -2, -1, -2, -2, -2>>

\* Days of a short list: today, yesterday, both ends of the trailing week,
\* both ends of the week before, the day before that, and tomorrow
ShortListDays ==
    {"2025-06-03", "2025-06-02", "2025-05-28", "2025-05-27", "2025-05-21",
     "2025-05-20", "2025-06-04"}

\* sales and expenses figures of the entries of a short list
AmountPairs ==
    {<<0, 0>>, <<0, 50000>>, <<10, 4>>, <<10, 6>>, <<10, 8>>, <<10, 12>>, <<30, 1>>}

ShortListEntries ==
    {[id |-> d, date |-> d, sales |-> a[1], expenses |-> a[2]]
        : d \in ShortListDays, a \in AmountPairs}

AnalyticsEntryLists ==
    {WeekOf(w) : w \in IncreasingWeeks \cup DecreasingWeeks \cup ConstantWeeks
                        \cup {SlowRisingWeek, RoundingWeek}}
    \cup {<<>>}
    \cup {<<e>> : e \in ShortListEntries}
    \cup {<<e, f>> : e \in ShortListEntries, f \in ShortListEntries}
    \cup {<<e, f, g>> : e \in {x \in ShortListEntries : x.date = "2025-05-27"},
                        f \in {x \in ShortListEntries : x.date = "2025-06-02"},
                        g \in {x \in ShortListEntries : x.date = "2025-06-03"}}

\* settings.dailyTarget: undefined, 0, or positive
AnalyticsSettings ==
    {[name |-> "Shop"], [name |-> "Shop", dailyTarget |-> 0],
     [name |-> "Shop", dailyTarget |-> 4]}

\* The clock reads exactly midnight, or a later instant of the day
Clocks == {[day |-> Today, ms |-> 0], [day |-> Today, ms |-> 43200000]}

AnalyticsInit ==
    /\ ana \in {[op |-> "none", entries |-> l, settings |-> s, now |-> n]
                  : l \in AnalyticsEntryLists, s \in AnalyticsSettings, n \in Clocks}
    /\ store = Absent /\ window = TRUE /\ last = NoCall
    /\ mem = getDefaultData /\ mlast = NoCall /\ mprev = NoCall
    /\ tpc = <<>> /\ tdata = <<>> /\ tentry = <<>> /\ tlog = <<>>
    /\ mig = NoCall

AnalyticsUntouched ==
    UNCHANGED <<store, window, last, mem, mlast, mprev, tpc, tdata, tentry, tlog, mig>>

AnalyticsCall(op, out) ==
    [op |-> op, entries |-> ana.entries, settings |-> ana.settings,
     now |-> ana.now, out |-> out]

\* getLast7DaysTrend(entries)
GetLast7DaysTrend ==
    /\ ana' = AnalyticsCall("trend", getLast7DaysTrend(ana.entries, ana.now))
    /\ AnalyticsUntouched

\* getExpenseRatio(entries, 7)
GetExpenseRatio ==
    /\ ana' = AnalyticsCall("ratio", getExpenseRatio(ana.entries, ana.now, 7))
    /\ AnalyticsUntouched

\* calculateHealthScore(entries, settings.dailyTarget)
CalculateHealthScore ==
    /\ ana' = AnalyticsCall("health",
                  calculateHealthScore(ana.entries, ana.settings, ana.now))
    /\ AnalyticsUntouched

AnalyticsNext == GetLast7DaysTrend \/ GetExpenseRatio \/ CalculateHealthScore

SpecAnalytics == AnalyticsInit /\ [][AnalyticsNext]_vars

----------------------------------------------------------------------------
(* Claims about the analytics functions (SpecAnalytics) *)

\* C11: for every entry list and every dailyTarget (absent, zero or
\* positive), the score calculateHealthScore returns is a multiple of 0.5
\* with 0 <= score <= 10.
HealthScoreBounded ==
    ana.op = "health" =>
        LET s == ana.out.score
        IN  /\ s.den > 0
            /\ 0 <= s.num /\ s.num <= 10 * s.den
            /\ (2 * s.num) % s.den = 0

\* A week of rising profit that meets a positive daily target collects more
\* than 100 internal points and is reported as 10
HealthScoreBoundedWitness ==
    /\ ana.op = "health"
    /\ Len(ana.entries) = 7
    /\ Has(ana.settings, "dailyTarget") /\ ana.settings.dailyTarget > 0
    /\ HealthPoints(ana.entries, ana.settings, ana.now) > 100
    /\ FracEq(ana.out.score, Frac(10, 1))

\* The list holds one entry for each of the last 7 calendar days, oldest first
CoversLast7Days(entries, now) ==
    /\ Len(entries) = 7
    /\ \A i \in 1..7 : entries[i].date = DayStringBefore(now, 7 - i)

DailyProfitRises(entries) ==
    \A i \in 1..(Len(entries) - 1) : ProfitOf(entries[i]) < ProfitOf(entries[i + 1])
DailyProfitFalls(entries) ==
    \A i \in 1..(Len(entries) - 1) : ProfitOf(entries[i]) > ProfitOf(entries[i + 1])
DailyProfitConstant(entries) ==
    \A i \in 1..(Len(entries) - 1) : ProfitOf(entries[i]) = ProfitOf(entries[i + 1])

\* C12: over entries covering the last 7 calendar days, the trend is +1 when
\* the daily profit is strictly increasing, -1 when it is strictly
\* decreasing, and 0 when it is constant, whatever the constant value.
TrendFollowsProfit ==
    (ana.op = "trend" /\ CoversLast7Days(ana.entries, ana.now)) =>
        /\ (DailyProfitRises(ana.entries) => ana.out = 1)
        /\ (DailyProfitFalls(ana.entries) => ana.out = -1)
        /\ (DailyProfitConstant(ana.entries) => ana.out = 0)

\* Entries of the trailing 7-day window of the last call, and their totals
RatioWindow == EntriesBetween(ana.entries, DaysBefore(ana.now, 6), NowInstant(ana.now))
WindowSales == SumSeq(MapSeq(RatioWindow, SalesOf))
WindowExpenses == SumSeq(MapSeq(RatioWindow, ExpensesOf))

\* C13: the expense ratio of a window whose total sales are 0 is 0 whatever
\* its total expenses; otherwise it is total expenses / total sales of the
\* entries in the window.
ExpenseRatioZeroWithoutSales ==
    ana.op = "ratio" =>
        /\ ana.out.den # 0
        /\ (WindowSales = 0 => ana.out.num = 0)
        /\ (WindowSales # 0 => ana.out.num * WindowSales = WindowExpenses * ana.out.den)

\* The window holds expenses of 50000 and no sales, and the ratio is 0
ExpenseRatioZeroWithoutSalesWitness ==
    /\ ana.op = "ratio"
    /\ Len(RatioWindow) > 0
    /\ WindowSales = 0 /\ WindowExpenses = 50000
    /\ FracEq(ana.out, Frac(0, 1))

----------------------------------------------------------------------------
(* Claims about what the ledger records (SpecLedger) *)

\* The last step added a SALE of more units than the product had on hand
SaleAboveStockAdded ==
    /\ mlast.op = "add" /\ IsSaleOf(mlast.entry)
    /\ InStock(mlast.stock, mlast.entry.productId)
    /\ mlast.entry.quantity
           > ItemOf(mlast.stock, mlast.entry.productId).quantity

\* C15: a SALE whose quantity exceeds the current quantity of the product it
\* names is rejected: the entry list does not hold it afterwards.
SaleAboveStockRejected ==
    SaleAboveStockAdded => FindIndexById(mem.entries, mlast.entry.id) = 0

----------------------------------------------------------------------------
(* The stock helpers on their own (SpecStockChange): applyStockChange and   *)
(* revertStockChange of lib/entries.ts and applyEntryToStock of             *)
(* lib/stock.ts, each applied once to a stock list and an entry drawn from  *)
(* the sets below.                                                          *)

\* lib/stock.ts: every sale line applied in turn
RECURSIVE applyEntryToStock(_, _)
applyEntryToStock(stockItems, saleItems) ==
    IF saleItems = <<>> THEN stockItems
    ELSE LET sale == Head(saleItems)
             itemIndex == FindIndexById(stockItems, sale.productId)
             updatedItems ==
                 IF itemIndex = 0 THEN stockItems
                 ELSE LET item == stockItems[itemIndex]
                          currentRevenue ==
                              item.totalSold * NumOrZero(item, "unitPrice")
                          newRevenue == currentRevenue + sale.total
                          newTotalSold == item.totalSold + sale.quantity
                          roundedAverage ==
                              IF newTotalSold > 0
                              THEN RoundDiv(newRevenue, newTotalSold)
                              ELSE 0
                      IN  [stockItems EXCEPT ![itemIndex] =
                              With(With(With(item,
                                  "quantity", Max0(item.quantity - sale.quantity)),
                                  "totalSold", newTotalSold),
                                  "unitPrice", roundedAverage)]
         IN  applyEntryToStock(updatedItems, Tail(saleItems))

MaxSold == 2         \* largest totalSold a product starts with
UnitPrices == {0, 7, 10}
SaleAmounts == {0, 5, 10, 25}

\* Product p1 with and without a recorded unit price
PricedItems ==
    {PlainItem("p1", q, sold) : q \in 0..2, sold \in 0..MaxSold}
    \cup {With(PlainItem("p1", q, sold), "unitPrice", u) :
             q \in 0..2, sold \in 0..MaxSold, u \in UnitPrices}

StockLists == {<<item, With(PlainItem("p2", 1, 1), "unitPrice", 7)>> : item \in PricedItems}

\* Entries of every kind; p9 is not a product of the stock list
StockChangeEntries ==
    {Sale("e1", pid, q, a) :
        pid \in {"p1", "p2", "p9"}, q \in 1..MaxQty, a \in SaleAmounts}
    \cup {StockExpense("e1", pid, q, 5) : pid \in {"p1", "p9"}, q \in 1..MaxQty}
    \cup {Expense("e1", cat, 4) : cat \in {"Transport", "Stock"}}
    \cup {With(With(Expense("e1", "Transport", 4), "productId", "p1"),
               "quantity", 2)}

SaleLine(pid, q, total) == [productId |-> pid, quantity |-> q, total |-> total]

SaleLineLists ==
    {<<SaleLine(pid, q, a)>> :
        pid \in {"p1", "p2", "p9"}, q \in 1..MaxQty, a \in SaleAmounts}
    \cup {<<SaleLine("p1", 1, 5), SaleLine(pid, 2, 25)>> : pid \in {"p1", "p2"}}

StockChangeInit ==
    /\ mem \in {TypedDoc(<<>>, stock) : stock \in StockLists}
    /\ mlast = NoCall /\ mprev = NoCall
    /\ store = Absent /\ window = TRUE /\ last = NoCall
    /\ tpc = <<>> /\ tdata = <<>> /\ tentry = <<>> /\ tlog = <<>>
    /\ mig = NoCall /\ ana = NoCall

\* applyStockChange(stock, entry)
ApplyStockChange ==
    \E entry \in StockChangeEntries :
        /\ mlast = NoCall
        /\ mem' = [mem EXCEPT !.stock = applyStockChange(mem.stock, entry)]
        /\ mlast' = StepRecord("apply", entry, entry, mem.stock)
        /\ UNCHANGED mprev
        /\ LedgerUntouched

\* revertStockChange(stock, entry)
RevertStockChange ==
    \E entry \in StockChangeEntries :
        /\ mlast = NoCall
        /\ mem' = [mem EXCEPT !.stock = revertStockChange(mem.stock, entry)]
        /\ mlast' = StepRecord("revert", entry, entry, mem.stock)
        /\ UNCHANGED mprev
        /\ LedgerUntouched

\* applyEntryToStock(stockItems, saleItems)
ApplyEntryToStock ==
    \E saleItems \in SaleLineLists :
        /\ mlast = NoCall
        /\ mem' = [mem EXCEPT !.stock = applyEntryToStock(mem.stock, saleItems)]
        /\ mlast' = StepRecord("applyLines", saleItems, saleItems, mem.stock)
        /\ UNCHANGED mprev
        /\ LedgerUntouched

StockChangeNext == ApplyStockChange \/ RevertStockChange \/ ApplyEntryToStock

SpecStockChange == StockChangeInit /\ [][StockChangeNext]_vars

\* Every member of the item but those named is what it was
SameBut(before, after, names) ==
    /\ (DOMAIN before) \ names = (DOMAIN after) \ names
    /\ \A k \in (DOMAIN before) \ names : after[k] = before[k]

\* Every item but the one at index i is what it was
OthersUnchanged(before, after, i) ==
    /\ Len(after) = Len(before)
    /\ \A j \in 1..Len(before) : j # i => after[j] = before[j]

\* The stock list after is the list before with a sale of q units for the
\* amount a applied to product pid: the mean price is the integer nearest to
\* (totalSold * unitPrice + a) / (totalSold + q), a half rounding up
SaleApplied(before, after, pid, q, a) ==
    LET i == FindIndexById(before, pid)
        item == before[i]
        new == after[i]
        sold == item.totalSold + q
        revenue == item.totalSold * NumOrZero(item, "unitPrice") + a
    IN  /\ OthersUnchanged(before, after, i)
        /\ SameBut(item, new, {"quantity", "totalSold", "unitPrice"})
        /\ new.totalSold = sold
        /\ new.quantity = IF item.quantity > q THEN item.quantity - q ELSE 0
        /\ Has(new, "unitPrice")
        /\ 2 * sold * new.unitPrice <= 2 * revenue + sold
        /\ 2 * revenue + sold < 2 * sold * (new.unitPrice + 1)

\* C16: applying a SALE of q > 0 units for the amount a to a product P of
\* the stock list sets totalSold' = totalSold + q, quantity' =
\* max(0, quantity - q) and unitPrice' = round((totalSold * unitPrice + a) /
\* totalSold'), a missing unitPrice counting as 0, and changes no other item.
SaleUpdatesProduct ==
    /\ (mlast.op = "apply" /\ IsSaleOf(mlast.entry)
            /\ InStock(mlast.stock, mlast.entry.productId))
         => SaleApplied(mlast.stock, mem.stock, mlast.entry.productId,
                        mlast.entry.quantity, mlast.entry.amount)
    /\ (mlast.op = "applyLines" /\ Len(mlast.entry) = 1
            /\ InStock(mlast.stock, mlast.entry[1].productId))
         => SaleApplied(mlast.stock, mem.stock, mlast.entry[1].productId,
                        mlast.entry[1].quantity, mlast.entry[1].total)

\* A sale of 2 units for 25 was applied to a product that had 1 unit, no
\* recorded price and nothing sold: the mean 12.5 is rounded up to 13 and the
\* quantity is held at 0
SaleUpdatesProductWitness ==
    /\ mlast.op = "apply" /\ IsSaleOf(mlast.entry)
    /\ mlast.entry.productId = "p1"
    /\ ~Has(ItemOf(mlast.stock, "p1"), "unitPrice")
    /\ ItemOf(mlast.stock, "p1").totalSold = 0
    /\ mlast.entry.quantity = 2 /\ mlast.entry.amount = 25
    /\ ItemOf(mlast.stock, "p1").quantity = 1
    /\ ItemOf(mem.stock, "p1").quantity = 0
    /\ ItemOf(mem.stock, "p1").unitPrice = 13

\* An EXPENSE of category Stock naming a product and a quantity
IsStockExpense(entry) ==
    /\ entry.type = "EXPENSE"
    /\ Has(entry, "category") /\ entry.category = "Stock"
    /\ HasProductAndQuantity(entry) /\ entry.quantity > 0

\* The item at index i has the quantity q and is otherwise what it was, and
\* so is every other item
OnlyQuantityChanged(before, after, i, q) ==
    /\ OthersUnchanged(before, after, i)
    /\ SameBut(before[i], after[i], {"quantity"})
    /\ after[i].quantity = q

\* C18: reverting a SALE of q units of a product P of the stock list sets
\* P.quantity to quantity + q and P.totalSold to max(0, totalSold - q); P's
\* unitPrice, every other member of P and every other item are what they
\* were before the revert.
RevertSaleKeepsPrice ==
    (mlast.op = "revert" /\ IsSaleOf(mlast.entry)
        /\ InStock(mlast.stock, mlast.entry.productId))
    => LET i == FindIndexById(mlast.stock, mlast.entry.productId)
           item == mlast.stock[i]
           new == mem.stock[i]
           q == mlast.entry.quantity
       IN  /\ OthersUnchanged(mlast.stock, mem.stock, i)
           /\ SameBut(item, new, {"quantity", "totalSold"})
           /\ Has(new, "unitPrice") = Has(item, "unitPrice")
           /\ Has(item, "unitPrice") => new.unitPrice = item.unitPrice
           /\ new.quantity = item.quantity + q
           /\ new.totalSold = IF item.totalSold > q THEN item.totalSold - q ELSE 0

\* A SALE of 2 units was reverted on a product with 1 unit sold at the price
\* 7: nothing is sold any more and the price is still 7
RevertSaleKeepsPriceWitness ==
    /\ mlast.op = "revert" /\ IsSaleOf(mlast.entry)
    /\ mlast.entry.productId = "p1" /\ mlast.entry.quantity = 2
    /\ ItemOf(mlast.stock, "p1").totalSold = 1
    /\ NumOrZero(ItemOf(mlast.stock, "p1"), "unitPrice") = 7
    /\ ItemOf(mlast.stock, "p1").quantity = 1
    /\ ItemOf(mem.stock, "p1").quantity = 3
    /\ ItemOf(mem.stock, "p1").totalSold = 0
    /\ ItemOf(mem.stock, "p1").unitPrice = 7

----------------------------------------------------------------------------
(* Stocking expenses through the handlers (SpecLedger) *)

\* The stock list as loadData() hands it out when the slot holds no entry:
\* every item through migrateStockItemToNewFormat
LoadedStock(stock) == MapSeq(stock, migrateStockItemToNewFormat)

\* C17: adding an EXPENSE of category Stock for q units of a product P of
\* the stock list adds q to P.quantity and changes no other member of P and
\* no other item; deleting that entry sets P.quantity to max(0, P.quantity -
\* q) and changes nothing else; adding or deleting an EXPENSE of another
\* category changes no stock item.  The list before is taken as loadData()
\* reads its items.
StockExpenseChangesQuantityOnly ==
    LET e == mlast.entry
        had == LoadedStock(mlast.stock)
    IN  /\ (mlast.op = "add" /\ mlast.ok /\ IsStockExpense(e)
                /\ InStock(had, e.productId))
            => LET i == FindIndexById(had, e.productId)
               IN  OnlyQuantityChanged(had, mem.stock, i,
                       had[i].quantity + e.quantity)
        /\ (mlast.op = "delete" /\ mlast.ok /\ IsStockExpense(e)
                /\ InStock(had, e.productId))
            => LET i == FindIndexById(had, e.productId)
               IN  OnlyQuantityChanged(had, mem.stock, i,
                       IF had[i].quantity > e.quantity
                       THEN had[i].quantity - e.quantity ELSE 0)
        /\ (mlast.op \in {"add", "delete"} /\ mlast.ok /\ e.type = "EXPENSE"
                /\ Has(e, "category") /\ e.category # "Stock")
            => mem.stock = had

----------------------------------------------------------------------------
(* The entry list under add, update and delete (SpecJournal): the ledger    *)
(* handlers step after step on a slot that starts empty, with entries of    *)
(* three ids whose day and creation instant vary.                           *)

JournalIds == {"e1", "e2", "e3"}
MaxStamp == 2        \* creation instants range over 1..MaxStamp

\* Entry e1 is a sale or an expense, the other two are expenses
JournalKinds ==
    {Sale("e1", "p1", 1, 10)} \cup {Expense(id, "Transport", 4) : id \in JournalIds}

\* The form sets the day from its date field and the instant from Date.now()
JournalEntries ==
    {[e EXCEPT !.date = d, !.timestamp = t] :
        e \in JournalKinds, d \in IsoDates, t \in 1..MaxStamp}

\* The entries of the document the slot holds, none when it holds nothing
StoredEntries(st) == IF st.kind = "json" THEN st.value.entries ELSE <<>>

\* Nothing is stored yet: loadData() hands out the empty document
JournalInit ==
    /\ store = Absent
    /\ window = TRUE
    /\ last = NoCall
    /\ OtherVarsInit

\* The call, the slot it met and what saveData returned
JournalStep(op, entry, before, ok) ==
    [op |-> op, entry |-> entry, before |-> before, ok |-> ok]

\* addOrUpdateEntry(entry) with an id the slot does not hold
JournalAdd ==
    \E entry \in JournalEntries, setItemThrows \in BOOLEAN :
        LET r == addOrUpdateEntry(window, setItemThrows, store, entry)
        IN  /\ FindIndexById(StoredEntries(store), entry.id) = 0
            /\ store' = r.store
            /\ last' = JournalStep("add", entry, store, r.ok)
            /\ Untouched

\* addOrUpdateEntry(entry) with the id of an entry the slot holds; the form
\* gives the entry the timestamp of the one it edits
JournalUpdate ==
    \E entry \in JournalEntries, setItemThrows \in BOOLEAN :
        LET r == addOrUpdateEntry(window, setItemThrows, store, entry)
            held == StoredEntries(store)
        IN  /\ FindIndexById(held, entry.id) > 0
            /\ entry.timestamp = held[FindIndexById(held, entry.id)].timestamp
            /\ store' = r.store
            /\ last' = JournalStep("update", entry, store, r.ok)
            /\ Untouched

\* deleteEntry(entryId) with the id of an entry the slot holds
JournalDelete ==
    \E entryId \in JournalIds, setItemThrows \in BOOLEAN :
        LET r == deleteEntry(window, setItemThrows, store, entryId)
            held == StoredEntries(store)
        IN  /\ FindIndexById(held, entryId) > 0
            /\ store' = r.store
            /\ last' = JournalStep("delete", held[FindIndexById(held, entryId)],
                                   store, r.ok)
            /\ Untouched

JournalNext == JournalAdd \/ JournalUpdate \/ JournalDelete

SpecJournal == JournalInit /\ [][JournalNext]_vars

----------------------------------------------------------------------------
(* Entries whose product leaves the stock list (SpecShelf): the ledger      *)
(* handlers and the delete handler of the stock page, step after step on    *)
(* the document the slot holds.                                             *)

\* handleDelete of the stock page: the document handed to saveData
deleteStockItem(data, itemId) ==
    LET KeepItem(item) == item.id # itemId
    IN  [data EXCEPT !.stock = SelectSeq(data.stock, KeepItem)]

ShelfItemIds == {"p1", "p2"}

ShelfEntries ==
    {Sale("e1", "p1", q, 10 * q) : q \in 1..MaxQty}
    \cup {StockExpense("e2", "p1", 2, 5), Sale("e2", "p2", 1, 10),
          Expense("e2", "Transport", 4)}

\* Two products entered through the form of the stock page, as the slot
\* holds them once a handler has loaded and saved the document
ShelfStart ==
    loadData(TRUE, Json(TypedDoc(<<>>, <<Item("p1", 2, 0), Item("p2", 1, 0)>>)))

ShelfInit ==
    /\ mem = ShelfStart
    /\ mlast = NoCall /\ mprev = NoCall
    /\ store = Absent /\ window = TRUE /\ last = NoCall
    /\ tpc = <<>> /\ tdata = <<>> /\ tentry = <<>> /\ tlog = <<>>
    /\ mig = NoCall /\ ana = NoCall

\* handleDelete(itemId): what saveData returns and the slot afterwards
handleDelete(win, setItemThrows, st, itemId) ==
    saveData(win, setItemThrows, st, deleteStockItem(loadData(win, st), itemId))

\* addOrUpdateEntry(entry), with a new id or one the slot holds
ShelfAddOrUpdateEntry ==
    \E entry \in ShelfEntries :
        /\ StockWithinBound(BuiltByAdd(mem, entry))
        /\ mem' = AfterAdd(mem, entry)
        /\ mlast' = JournalStep(
                        IF FindIndexById(mem.entries, entry.id) > 0
                        THEN "update" ELSE "add", entry, mem,
                        addOrUpdateEntry(TRUE, FALSE, Json(mem), entry).ok)
        /\ UNCHANGED mprev
        /\ LedgerUntouched

\* deleteEntry(entryId) with the id of an entry the slot holds
ShelfDeleteEntry ==
    \E entryId \in EntryIds :
        /\ FindIndexById(mem.entries, entryId) > 0
        /\ StockWithinBound(BuiltByDelete(mem, entryId))
        /\ mem' = AfterDelete(mem, entryId)
        /\ mlast' = JournalStep("delete",
                        mem.entries[FindIndexById(mem.entries, entryId)], mem,
                        deleteEntry(TRUE, FALSE, Json(mem), entryId).ok)
        /\ UNCHANGED mprev
        /\ LedgerUntouched

\* handleDelete(itemId) of the stock page, for an item the slot holds
ShelfDeleteItem ==
    \E itemId \in ShelfItemIds :
        /\ InStock(mem.stock, itemId)
        /\ mem' = handleDelete(TRUE, FALSE, Json(mem), itemId).store.value
        /\ mlast' = JournalStep("deleteItem", itemId, mem,
                        handleDelete(TRUE, FALSE, Json(mem), itemId).ok)
        /\ UNCHANGED mprev
        /\ LedgerUntouched

ShelfNext == ShelfAddOrUpdateEntry \/ ShelfDeleteEntry \/ ShelfDeleteItem

SpecShelf == ShelfInit /\ [][ShelfNext]_vars

\* The entry names a product the stock list does not hold
NamesDeletedProduct(entry, stock) ==
    /\ HasProductAndQuantity(entry)
    /\ entry.productId \in ShelfItemIds
    /\ ~InStock(stock, entry.productId)

\* C21: deleting a stock item removes that item and nothing else, the
\* entries naming it stay as they are; a later delete of such an entry, or an
\* update that keeps its product, removes or replaces the entry and changes
\* no item of the stock list.
ItemDeletionKeepsEntries ==
    LET before == mlast.before
    IN  /\ mlast.op = "deleteItem" =>
              /\ mem.entries = before.entries
              /\ mem.settings = before.settings
              /\ ~InStock(mem.stock, mlast.entry)
              /\ Len(mem.stock) = Len(before.stock) - 1
              /\ \A i \in 1..Len(before.stock) :
                     before.stock[i].id # mlast.entry =>
                         \E j \in 1..Len(mem.stock) :
                             mem.stock[j] = before.stock[i]
        /\ (mlast.op = "delete" /\ NamesDeletedProduct(mlast.entry, before.stock))
              => /\ mem.stock = before.stock
                 /\ FindIndexById(mem.entries, mlast.entry.id) = 0
                 /\ Len(mem.entries) = Len(before.entries) - 1
        /\ (mlast.op = "update" /\ NamesDeletedProduct(mlast.entry, before.stock)
               /\ NamesDeletedProduct(
                      before.entries[FindIndexById(before.entries,
                                                   mlast.entry.id)],
                      before.stock)
               /\ before.entries[FindIndexById(before.entries,
                                               mlast.entry.id)].productId
                      = mlast.entry.productId)
              => /\ mem.stock = before.stock
                 /\ mem.entries[FindIndexById(mem.entries, mlast.entry.id)]
                        = mlast.entry
                 /\ Len(mem.entries) = Len(before.entries)

----------------------------------------------------------------------------
(* Today's and the month's profit on the dashboard (SpecProfit).  The page  *)
(* takes its entries from loadData() and hands them to lib/profit.ts, which *)
(* reads e.sales and e.expenses; an entry without these members gives       *)
(* undefined, and undefined - undefined is NaN.                             *)

\* A JavaScript number: NaN, or an integer
JsNumber(n) == [nan |-> FALSE, num |-> n]
JsNaN == [nan |-> TRUE, num |-> 0]

\* e.k read for an arithmetic operation: undefined behaves as NaN
NumberMember(e, k) == IF Has(e, k) THEN JsNumber(e[k]) ELSE JsNaN

JsPlus(a, b) == IF a.nan \/ b.nan THEN JsNaN ELSE JsNumber(a.num + b.num)
JsMinus(a, b) == IF a.nan \/ b.nan THEN JsNaN ELSE JsNumber(a.num - b.num)

\* calculateProfit(e.sales, e.expenses)
EntryProfit(e) == JsMinus(NumberMember(e, "sales"), NumberMember(e, "expenses"))

\* entries.reduce((sum, e) => sum + calculateProfit(e.sales, e.expenses), 0)
RECURSIVE ReduceProfit(_, _)
ReduceProfit(sum, entries) ==
    IF entries = <<>> THEN sum
    ELSE ReduceProfit(JsPlus(sum, EntryProfit(Head(entries))), Tail(entries))

\* getTodayProfit(entries) of lib/profit.ts on entries of any schema
todayProfit(entries, now) ==
    IF \E i \in 1..Len(entries) : entries[i].date = now.day
    THEN LET first == CHOOSE i \in 1..Len(entries) :
                         /\ entries[i].date = now.day
                         /\ \A j \in 1..(i - 1) : entries[j].date # now.day
         IN  EntryProfit(entries[first])
    ELSE JsNumber(0)

\* getMonthlyProfit(entries) of lib/profit.ts on entries of any schema
monthlyProfit(entries, now) ==
    ReduceProfit(JsNumber(0),
        SelectSeq(entries, LAMBDA e : MonthOf(e.date) = MonthOf(now.day)))

\* Today, an earlier day of the month, the last day of the month before
ProfitDays == {Today, "2025-06-01", "2025-05-31"}

\* What the entry form records under the id: a sale or an expense
TypedEntriesOf(id) ==
    {[e EXCEPT !.date = d] :
        e \in {Sale(id, "p1", 1, 100000), Expense(id, "Transport", 10000),
               Sale(id, "p1", 2, 10)},
        d \in ProfitDays}

\* What the schema of one sales and one expenses figure a day records
FlatEntriesOf(id) ==
    {[id |-> id, date |-> d, sales |-> s, expenses |-> x] :
        d \in ProfitDays, s \in {0, 10}, x \in {0, 4}}

\* Lists of up to three entries of one schema
ListsOfUpToThree(Of(_)) ==
    {<<>>} \cup {<<a>> : a \in Of("e1")}
    \cup {<<a, b>> : a \in Of("e1"), b \in Of("e2")}
    \cup {<<a, b, c>> : a \in Of("e1"), b \in Of("e2"), c \in Of("e3")}

\* Lists of the flat schema the functions are given
ProfitEntryLists == ListsOfUpToThree(FlatEntriesOf)

\* Slots handleFileSelect leaves on an empty slot for a file of recorded
\* entries: { ...result.data, settings: currentData.settings }
ImportedLedgers ==
    {saveData(TRUE, FALSE, Absent,
              [version |-> 1, exportedAt |-> 1000, stock |-> <<>>, entries |-> l,
               settings |-> loadData(TRUE, Absent).settings]).store
        : l \in ListsOfUpToThree(TypedEntriesOf)}

\* Slots addOrUpdateEntry leaves on an empty slot
RecordedLedgers ==
    {addOrUpdateEntry(TRUE, FALSE, Absent, e).store : e \in TypedEntriesOf("e1")}

\* Slots that hold what the entry form recorded
ProfitStores == ImportedLedgers \cup RecordedLedgers

\* const [entries] = useState(() => loadData().entries) of the dashboard on a
\* slot that holds recorded entries, or a list of the flat schema
ProfitInit ==
    /\ \/ /\ store \in ProfitStores
          /\ ana \in {[op |-> "none", entries |-> loadData(TRUE, store).entries,
                        settings |-> Settings, now |-> n] : n \in Clocks}
       \/ /\ store = Absent
          /\ ana \in {[op |-> "none", entries |-> l, settings |-> Settings,
                        now |-> n] : l \in ProfitEntryLists, n \in Clocks}
    /\ window = TRUE /\ last = NoCall
    /\ mem = getDefaultData /\ mlast = NoCall /\ mprev = NoCall
    /\ tpc = <<>> /\ tdata = <<>> /\ tentry = <<>> /\ tlog = <<>>
    /\ mig = NoCall

\* getTodayProfit(entries)
GetTodayProfit ==
    /\ ana.op = "none"
    /\ ana' = AnalyticsCall("today", todayProfit(ana.entries, ana.now))
    /\ AnalyticsUntouched

\* getMonthlyProfit(entries)
GetMonthlyProfit ==
    /\ ana.op = "none"
    /\ ana' = AnalyticsCall("month", monthlyProfit(ana.entries, ana.now))
    /\ AnalyticsUntouched

ProfitNext == GetTodayProfit \/ GetMonthlyProfit

SpecProfit == ProfitInit /\ [][ProfitNext]_vars

\* The SALE amounts minus the EXPENSE amounts of the entries
RECURSIVE SalesMinusExpenses(_)
SalesMinusExpenses(entries) ==
    IF entries = <<>> THEN 0
    ELSE (IF Head(entries).type = "SALE" THEN Head(entries).amount
          ELSE 0 - Head(entries).amount)
         + SalesMinusExpenses(Tail(entries))

\* C22: when the slot holds SALE and EXPENSE entries, todayProfit on the
\* dashboard is the sum of the SALE amounts minus the sum of the EXPENSE
\* amounts over every recorded entry dated today, and monthlyProfit the same
\* over every recorded entry of the current month, for any number of entries
\* on one day.
ProfitSumsTypedEntries ==
    store.kind = "json" =>
        /\ ana.op = "today" =>
               ana.out = JsNumber(SalesMinusExpenses(
                   SelectSeq(store.value.entries, LAMBDA e : e.date = ana.now.day)))
        /\ ana.op = "month" =>
               ana.out = JsNumber(SalesMinusExpenses(
                   SelectSeq(store.value.entries,
                       LAMBDA e : MonthOf(e.date) = MonthOf(ana.now.day))))

----------------------------------------------------------------------------
(* Claims about the ledger and the stock taken together (SpecLedger) *)

\* The quantities of the SALE entries of the list that name the product
RECURSIVE UnitsSold(_, _)
UnitsSold(entries, pid) ==
    IF entries = <<>> THEN 0
    ELSE (IF IsSaleOf(Head(entries)) /\ Head(entries).productId = pid
          THEN Head(entries).quantity ELSE 0)
         + UnitsSold(Tail(entries), pid)

\* C23: with the products fixed and their totalSold starting at 0, after any
\* sequence of add, update and delete every product's totalSold is the sum
\* of the quantities of the SALE entries of the list that name it.
TotalSoldMatchesLedger ==
    \A pid \in LedgerProducts :
        /\ InStock(mem.stock, pid)
        /\ ItemOf(mem.stock, pid).totalSold = UnitsSold(mem.entries, pid)

----------------------------------------------------------------------------
(* Update against delete followed by add (SpecLedger) *)

\* The entries of a list as a set
EntrySet(entries) == {entries[i] : i \in 1..Len(entries)}

\* The same stock list and the same set of entries
SameLedger(a, b) ==
    /\ a.stock = b.stock
    /\ EntrySet(a.entries) = EntrySet(b.entries)

----------------------------------------------------------------------------
(* Every writer of the slot (SpecWriters): the ledger handlers, the import  *)
(* dialog and the add, edit and delete handlers of the stock page, each a   *)
(* loadData(), a change of the document and a saveData().                   *)

\* parseInt of the quantity and threshold fields: NaN or an integer
FormQuantities == {JsNaN, JsNumber(-1), JsNumber(2)}
FormThresholds == {JsNumber(-1), JsNumber(1)}

\* The name field after trim()
FormNames == {"", "Savon"}

\* generateItemId(): an id no item of the list has
generateItemId(stock) ==
    CHOOSE id \in {"p1", "p2", "p3"} : FindIndexById(stock, id) = 0

\* handleSubmit of the stock page from the checks on: the document handed to
\* saveData, or none when a check refuses the form.  editingId is "" when
\* the form adds an item.
stockSubmitBody(data, editingId, name, qty, thresh) ==
    IF name = "" THEN [saved |-> FALSE]
    ELSE IF qty.nan \/ thresh.nan \/ qty.num < 0 \/ thresh.num < 0
    THEN [saved |-> FALSE]
    ELSE LET index == IF editingId = "" THEN 0
                      ELSE FindIndexById(data.stock, editingId)
             newItem ==
                 [id |-> IF editingId # "" THEN editingId
                         ELSE generateItemId(data.stock),
                  name |-> name,
                  quantity |-> qty.num,
                  threshold |-> thresh.num,
                  unitPrice |-> IF index > 0
                                THEN NumOrZero(data.stock[index], "unitPrice")
                                ELSE 0,
                  totalSold |-> IF index > 0 /\ Has(data.stock[index], "totalSold")
                                THEN data.stock[index].totalSold
                                ELSE 0,
                  hasInitialStockTransaction |->
                      IF index > 0
                         /\ Has(data.stock[index], "hasInitialStockTransaction")
                      THEN data.stock[index].hasInitialStockTransaction
                      ELSE FALSE]
         IN  [saved |-> TRUE,
              data |-> IF editingId # ""
                       THEN IF index > 0
                            THEN [data EXCEPT !.stock[index] = newItem]
                            ELSE data
                       ELSE [data EXCEPT !.stock = Append(data.stock, newItem)]]

WritersInit ==
    /\ store \in {Absent} \cup {Json(d) : d \in StockOnlyDocs}
    /\ window = TRUE
    /\ last = NoCall
    /\ OtherVarsInit

\* handleSubmit of the stock page, adding the first item of the list or
\* editing item p1
StockSubmit ==
    \E editingId \in {"", "p1"}, name \in FormNames,
       qty \in FormQuantities, thresh \in FormThresholds,
       setItemThrows \in BOOLEAN :
        LET data == loadData(window, store)
            out == stockSubmitBody(data, editingId, name, qty, thresh)
            r == IF out.saved
                 THEN saveData(window, setItemThrows, store, out.data)
                 ELSE [ok |-> FALSE, store |-> store]
        IN  /\ editingId = "" => data.stock = <<>>
            /\ out.saved \/ ~setItemThrows
            /\ store' = r.store
            /\ last' = [op |-> "stockSubmit", editingId |-> editingId,
                        before |-> store, saved |-> out.saved,
                        threw |-> setItemThrows, ok |-> r.ok]
            /\ Untouched

\* handleDelete of the stock page
StockDelete ==
    \E itemId \in ShelfItemIds, setItemThrows \in BOOLEAN :
        LET data == loadData(window, store)
            r == saveData(window, setItemThrows, store,
                          deleteStockItem(data, itemId))
        IN  /\ store' = r.store
            /\ last' = [op |-> "stockDelete", itemId |-> itemId,
                        before |-> store, threw |-> setItemThrows, ok |-> r.ok]
            /\ Untouched

WritersNext ==
    AddOrUpdateEntry \/ DeleteEntry \/ HandleFileSelect \/ StockSubmit
        \/ StockDelete

SpecWriters == WritersInit /\ [][WritersNext]_vars

\* The members the validation asks of an entry
EntryFieldsValid(e) ==
    /\ Has(e, "id") /\ e.id # ""
    /\ Has(e, "date") /\ e.date \in IsoDates
    /\ Has(e, "type") /\ e.type \in {"SALE", "EXPENSE"}
    /\ Has(e, "amount") /\ e.amount >= 0

\* A document whose settings have a name, whose entries have the members
\* above and whose stock items have quantity, threshold and totalSold >= 0
DocumentAsClaimed(d) ==
    /\ Has(d, "settings") /\ Has(d.settings, "name")
    /\ \A i \in 1..Len(d.entries) : EntryFieldsValid(d.entries[i])
    /\ \A i \in 1..Len(d.stock) :
          /\ Has(d.stock[i], "quantity") /\ d.stock[i].quantity >= 0
          /\ Has(d.stock[i], "threshold") /\ d.stock[i].threshold >= 0
          /\ Has(d.stock[i], "totalSold") /\ d.stock[i].totalSold >= 0

\* The same with totalSold allowed to be missing
DocumentAsValidated(d) ==
    /\ Has(d, "settings") /\ Has(d.settings, "name")
    /\ \A i \in 1..Len(d.entries) : EntryFieldsValid(d.entries[i])
    /\ \A i \in 1..Len(d.stock) :
          /\ Has(d.stock[i], "quantity") /\ d.stock[i].quantity >= 0
          /\ Has(d.stock[i], "threshold") /\ d.stock[i].threshold >= 0
          /\ Has(d.stock[i], "totalSold") => d.stock[i].totalSold >= 0

\* A call wrote the slot
Written == last.op # "none" /\ last.ok /\ store.kind = "json"

\* C25 as stated: every document written to the slot has settings.name,
\* entries with a non-empty id, a YYYY-MM-DD date, type SALE or EXPENSE and
\* amount >= 0, and stock items with quantity, threshold and totalSold >= 0.
WrittenDocumentAsClaimed ==
    Written => DocumentAsClaimed(store.value)

\* C25: every document written to the slot has settings.name, entries with
\* a non-empty id, a YYYY-MM-DD date, type SALE or EXPENSE and amount >= 0,
\* and stock items with quantity >= 0, threshold >= 0 and a totalSold that
\* is missing or >= 0.
WrittenDocumentValid ==
    Written => DocumentAsValidated(store.value)

\* An accepted import wrote a document whose stock item has no totalSold
WrittenDocumentValidWitness ==
    /\ last.op = "import" /\ last.ok
    /\ store.kind = "json"
    /\ Len(store.value.stock) = 1
    /\ ~Has(store.value.stock[1], "totalSold")
    /\ store.value.stock[1].quantity = 2

----------------------------------------------------------------------------
(* Claims about what a write keeps of the stored document (Spec) *)

\* C26: after a successful addOrUpdateEntry(entry), whatever the slot held
\* before, every entry the slot held under another id is still stored.
AddKeepsOtherEntries ==
    (last.op = "addOrUpdateEntry" /\ last.ok /\ last.before.kind = "json"
        /\ Has(last.before.value, "entries"))
    => \A i \in 1..Len(last.before.value.entries) :
           LET e == last.before.value.entries[i]
           IN  (Has(e, "id") /\ e.id # last.entry.id)
                   => \E j \in 1..Len(store.value.entries) :
                          store.value.entries[j].id = e.id

\* C27: for every document saveData accepts, a loadData performed right after
\* returns a document equal to the one saved.
SaveThenLoadIsIdentity ==
    (last.op = "saveData" /\ last.ok) => loadData(window, store) = last.doc

----------------------------------------------------------------------------
(* Week-over-week growth (SpecGrowth) *)

\* getWeeklyGrowth(entries)
GetWeeklyGrowth ==
    /\ ana' = AnalyticsCall("growth", getWeeklyGrowth(ana.entries, ana.now))
    /\ AnalyticsUntouched

GrowthNext == GetWeeklyGrowth

SpecGrowth == AnalyticsInit /\ [][GrowthNext]_vars

\* The profit of the 7 days ending now and of the 7 days before them
TrailingProfit ==
    SumSeq(MapSeq(EntriesBetween(ana.entries, DaysBefore(ana.now, 6),
                                 NowInstant(ana.now)), ProfitOf))
PrecedingProfit ==
    SumSeq(MapSeq(EntriesBetween(ana.entries, DaysBefore(ana.now, 13),
                                 DaysBefore(ana.now, 7)), ProfitOf))

\* C28: whenever the profit of the preceding 7 days is not 0, weeklyGrowth is
\* > 0 exactly when the trailing 7-day profit is greater than it and < 0
\* exactly when it is smaller, a negative preceding profit included.
GrowthHasSignOfChange ==
    (ana.op = "growth" /\ PrecedingProfit # 0) =>
        /\ FracLt(Frac(0, 1), ana.out) <=> TrailingProfit > PrecedingProfit
        /\ FracLt(ana.out, Frac(0, 1)) <=> TrailingProfit < PrecedingProfit

----------------------------------------------------------------------------
(* The month list of the entries page (SpecMonth): entries are recorded    *)
(* through the form and the page asks for the list of a month.  Instants    *)
(* are counted in ms from midnight of the first day of AnalyticsDays, local *)
(* time being UTC.                                                          *)

Months == {"2025-05", "2025-06"}

\* new Date(year, month - 1, 1).getTime(), in whole days: the first day of
\* the month
MonthStart(yearMonth) ==
    IF yearMonth = "2025-05" THEN 0 - 19 ELSE 12

\* new Date(year, month, 1).getTime(), in whole days: the first day of the
\* next month
MonthEnd(yearMonth) ==
    IF yearMonth = "2025-05" THEN 12 ELSE 42

\* getEntriesForMonth(yearMonth): the entries loadData() hands out whose
\* timestamp lies in the month.  Both bounds are midnights, so t >= start
\* and t < end in ms are the same comparisons on the whole days of t (the ms
\* of the later bound do not fit the checker's integers).
getEntriesForMonth(win, st, yearMonth) ==
    SelectSeq(loadData(win, st).entries,
              LAMBDA e : /\ e.timestamp \div DayMs >= MonthStart(yearMonth)
                         /\ e.timestamp \div DayMs < MonthEnd(yearMonth))

\* Days an entry is dated, and days it is recorded on (at noon)
MonthDays == {"2025-05-31", "2025-06-01", "2025-06-03"}

\* The form takes the date from its date field and the timestamp from
\* Date.now(): an entry dated d and recorded on the day c
RecordedEntries(id) ==
    {[x[1] EXCEPT !.date = x[2], !.timestamp = DateInstant(x[3]) + 43200000] :
        x \in {y \in {Sale(id, "p1", 1, 10), Expense(id, "Transport", 4)}
                       \X MonthDays \X MonthDays
                  : DayNumber(y[3]) >= DayNumber(y[2])}}

\* Nothing is stored yet and no list was asked for
MonthInit ==
    /\ store = Absent
    /\ window = TRUE
    /\ last = NoCall
    /\ OtherVarsInit

\* handleSaveEntry([entry]) of the entries page for a new entry, whose id the
\* slot does not hold: addOrUpdateEntry(entry)
RecordEntry ==
    \E id \in EntryIds : \E entry \in RecordedEntries(id) :
        /\ FindIndexById(StoredEntries(store), id) = 0
        /\ store' = addOrUpdateEntry(window, FALSE, store, entry).store
        /\ UNCHANGED <<window, last, mem, mlast, mprev, tpc, tdata, tentry,
                       tlog, mig, ana>>

\* const allEntries = getEntriesForMonth(selectedMonth)
GetEntriesForMonth ==
    \E month \in Months :
        /\ ana' = [op |-> "monthList", month |-> month, slot |-> store,
                   out |-> getEntriesForMonth(window, store, month)]
        /\ AnalyticsUntouched

MonthNext == RecordEntry \/ GetEntriesForMonth

SpecMonth == MonthInit /\ [][MonthNext]_vars

\* C29: for every month m the month list holds exactly the entries of the
\* slot whose date lies in m, also when an entry was recorded on another day
\* than the one it is dated, so that the sales minus the expenses of the
\* list are the sales minus the expenses of the entries dated in m.
MonthListFollowsDate ==
    ana.op = "monthList" =>
        LET dated == SelectSeq(StoredEntries(ana.slot),
                               LAMBDA e : MonthOf(e.date) = ana.month)
        IN  /\ ana.out = dated
            /\ SalesMinusExpenses(ana.out) = SalesMinusExpenses(dated)

----------------------------------------------------------------------------
(* Saving the lines of a sale: entries page and entry form (SpecSaleForm). *)

\* Stored documents the form is opened on: two products entered through the
\* form of the stock page (the first as the submission of the second loaded
\* it, the second as that submission pushed it), no entry yet
SaleFormDocs ==
    {TypedDoc(<<>>, <<migrateStockItemToNewFormat(Item("p1", q1, 0)),
                      Item("p2", q2, 0)>>) :
        q1 \in 0..MaxSold, q2 \in 0..MaxSold}

\* One entry per line of the form (index.tsx 205-213): its own id, the date
\* of the form's date field, the Date.now() of its turn of the loop, the
\* product and the quantity of the line, amount = Math.round(quantity *
\* unitPrice) with the unit price 10
FormLine(id, date, now, pid, q) ==
    [id |-> id, date |-> date, timestamp |-> now, type |-> "SALE",
     productId |-> pid, quantity |-> q, amount |-> 10 * q]

\* The entries the form hands to onSave for a sale of two lines: one date,
\* and the clock of the second line no earlier than that of the first
FormLines ==
    {<<FormLine("e1", date, now[1], pid1, q1),
       FormLine("e2", date, now[2], pid2, q2)>> :
        date \in IsoDates,
        now \in {t \in (1..MaxStamp) \X (1..MaxStamp) : t[1] <= t[2]},
        pid1 \in {"p1", "p2"}, pid2 \in {"p1", "p2"},
        q1 \in 1..MaxSold, q2 \in 1..MaxSold}

SaleFormInit ==
    /\ store \in {Json(d) : d \in SaleFormDocs}
    /\ window = TRUE
    /\ last = NoCall
    /\ OtherVarsInit

\* handleSaveEntry(entries) for the two lines of a sale:
\* entries.forEach(entry => { if (!addOrUpdateEntry(entry)) ok = false })
HandleSaveEntry ==
    /\ last = NoCall
    /\ \E lines \in FormLines, throws1 \in BOOLEAN, throws2 \in BOOLEAN :
        LET r1 == addOrUpdateEntry(window, throws1, store, lines[1])
            r2 == addOrUpdateEntry(window, throws2, r1.store, lines[2])
        IN  /\ store' = r2.store
            /\ last' = [op |-> "handleSaveEntry", lines |-> lines,
                        before |-> store, oks |-> <<r1.ok, r2.ok>>,
                        ok |-> r1.ok /\ r2.ok]
            /\ Untouched

SaleFormNext == HandleSaveEntry

SpecSaleForm == SaleFormInit /\ [][SaleFormNext]_vars

\* C30: when one line of a sale of several lines fails to be persisted, the
\* stored document holds no line of that sale and its stock is the stock
\* from before the sale.
SaleIsAllOrNothing ==
    (last.op = "handleSaveEntry" /\ ~last.ok) =>
        /\ \A i \in 1..Len(store.value.entries) :
               \A j \in 1..Len(last.lines) :
                   store.value.entries[i].id # last.lines[j].id
        /\ store.value.stock = last.before.value.stock

====
